---- MODULE Spec2Model ----
(***************************************************************************)
(* A model of the reference service's resolver and parser support code:    *)
(*   - resolver/common.py : class Evidences                                *)
(*   - parser/crf.py      : CRFClassifier.create_crf / save,               *)
(*                          create_text_model                              *)
(*                                                                         *)
(* Scores are modelled as integers.  The configured evidence range is      *)
(* [EVIDENCE_SCORE_MIN, EVIDENCE_SCORE_MAX]; callers may offer any score   *)
(* in Scores, which reaches one unit outside the range on both sides.      *)
(***************************************************************************)
EXTENDS Integers, Sequences, FiniteSets, TLC

VARIABLES
    \* --- resolver/common.py, one Evidences object
    evidences,      \* Evidences.evidences : list of scores
    labels,         \* Evidences.labels    : list of labels
    score,          \* Evidences.score     : None or the cached sum
    min_score,      \* Evidences.min_score
    max_score,      \* Evidences.max_score
    exc,            \* outcome of the last call on the Evidences object
    \* --- the last rich comparison made on the Evidences object
    cmp_op,         \* "none" or one of CmpOps
    cmp_other,      \* the right-hand operand
    cmp_ret,        \* what the comparison returned
    \* --- parser/crf.py, one classifier and its caller
    pc,             \* where the caller of the classifier stands
    caller,         \* "create_text_model" while inside its try block
    generate_fold,  \* create_crf: flag returned by load_training_data
    num_tries,      \* create_crf: local num_tries
    crf_score,      \* create_crf: local score, in hundredths
    attempts,       \* attempts made by the running create_crf
    last,           \* how the most recent attempt ended
    crf_ret,        \* what create_crf returned
    save_ret,       \* what save returned
    load_ret,       \* what load returned
    result,         \* what create_text_model returned
    escaped,        \* an exception left the entry point that was called
    save_calls,     \* save calls made since the entry point was called
    file,           \* the model file: "absent" or the parts it holds
    crf,            \* CRFClassifier.crf
    label_code,     \* CRFClassifier.label_code
    nltk_tagger,    \* CRFClassifier.nltk_tagger
    \* --- one call of a function of the parser or of resolver/authors.py
    fn_args,        \* the arguments of the call
    fn_ret          \* <<>> before the call, <<what it returned>> after it

ev_vars == <<evidences, labels, score, min_score, max_score, exc>>

cmp_vars == <<cmp_op, cmp_other, cmp_ret>>

crf_vars == <<pc, caller, generate_fold, num_tries, crf_score, attempts, last,
              crf_ret, save_ret, load_ret, result, escaped, save_calls,
              file, crf, label_code, nltk_tagger>>

fn_vars == <<fn_args, fn_ret>>

vars == <<ev_vars, cmp_vars, crf_vars, fn_vars>>

--------------------------------------------------------------------------
(* Bounds and inputs *)

\* longest evidence list explored
MaxLen == 3

\* longest evidence list the votes are counted on
MaxVotes == 4

\* longest right-hand operand of an in-place combination
MaxOther == 1

\* longest evidence list the comparisons are tried on
CmpLen == 2

\* current_app.config['EVIDENCE_SCORE_RANGE']
EVIDENCE_SCORE_MIN == -1
EVIDENCE_SCORE_MAX == 1

Scores == (EVIDENCE_SCORE_MIN - 1) .. (EVIDENCE_SCORE_MAX + 1)

\* the scores offered where only "is it the maximum" is read
VoteScores == (EVIDENCE_SCORE_MAX - 1) .. (EVIDENCE_SCORE_MAX + 1)

Labels == {"authors", "pubstring", "volume", "year", "page"}

\* Python's None for the cached score; a cached value v is <<v>>
None == <<>>

RECURSIVE SeqSum(_)
\* builtin sum() over a list of scores
SeqSum(s) == IF s = <<>> THEN 0 ELSE s[1] + SeqSum(Tail(s))

\* the Evidences objects of n evidences a caller may pass as the right-hand
\* operand of +: built elsewhere, possibly under a wider configured range
OtherEvidences(n, S) ==
    { [evidences |-> es, labels |-> ls] :
        es \in [1..n -> S], ls \in [1..n -> Labels] }

--------------------------------------------------------------------------
(* class Evidences *)

\* Evidences.__init__
EvInit ==
    /\ evidences = <<>>
    /\ labels = <<>>
    /\ score = None
    /\ min_score = EVIDENCE_SCORE_MIN
    /\ max_score = EVIDENCE_SCORE_MAX
    /\ exc = "none"

\* the assert of add_evidence / __add__
InRange(e) == min_score <= e /\ e <= max_score

\* add_evidence with the range assertion left out
add_evidence_unchecked(evidence, label) ==
    /\ score' = None
    /\ evidences' = Append(evidences, evidence)
    /\ labels' = Append(labels, label)
    /\ exc' = "none"
    /\ UNCHANGED <<min_score, max_score>>

\* Evidences.add_evidence(evidence, label)
add_evidence(evidence, label) ==
    IF InRange(evidence)
    THEN /\ score' = None
         /\ evidences' = Append(evidences, evidence)
         /\ labels' = Append(labels, label)
         /\ exc' = "none"
         /\ UNCHANGED <<min_score, max_score>>
    ELSE /\ exc' = "AssertionError"
         /\ UNCHANGED <<evidences, labels, score, min_score, max_score>>

\* __add__ that forgets to invalidate the cached score
add_keeps_cache(other) ==
    IF \A i \in 1..Len(other.evidences) : InRange(other.evidences[i])
    THEN /\ evidences' = evidences \o other.evidences
         /\ labels' = labels \o other.labels
         /\ exc' = "none"
         /\ UNCHANGED <<score, min_score, max_score>>
    ELSE /\ exc' = "AssertionError"
         /\ UNCHANGED <<evidences, labels, score, min_score, max_score>>

\* __add__ that concatenates first and asserts afterwards
add_asserts_last(other) ==
    /\ score' = None
    /\ evidences' = evidences \o other.evidences
    /\ labels' = labels \o other.labels
    /\ exc' = IF \A i \in 1..Len(other.evidences) : InRange(other.evidences[i])
              THEN "none" ELSE "AssertionError"
    /\ UNCHANGED <<min_score, max_score>>

\* Evidences.__add__(other): self + other, in place
add(other) ==
    IF \A i \in 1..Len(other.evidences) : InRange(other.evidences[i])
    THEN /\ score' = None
         /\ evidences' = evidences \o other.evidences
         /\ labels' = labels \o other.labels
         /\ exc' = "none"
         /\ UNCHANGED <<min_score, max_score>>
    ELSE /\ exc' = "AssertionError"
         /\ UNCHANGED <<evidences, labels, score, min_score, max_score>>

\* the value Evidences.get_score() returns in the current state
get_score_value ==
    IF evidences = <<>> THEN 0
    ELSE IF score = None THEN SeqSum(evidences)
    ELSE score[1]

\* the cache Evidences.get_score() leaves behind
get_score_cache ==
    IF evidences # <<>> /\ score = None THEN <<SeqSum(evidences)>> ELSE score

\* Evidences.get_score()
get_score ==
    /\ score' = get_score_cache
    /\ exc' = "none"
    /\ UNCHANGED <<evidences, labels, min_score, max_score>>

\* has_veto that lets a score of exactly 0 pass
has_veto_strict == \E i \in 1..Len(evidences) : evidences[i] < 0

\* Evidences.has_veto()
has_veto == \E i \in 1..Len(evidences) : evidences[i] <= 0

\* dict(zip(self.labels, self.evidences)): term in d
InDict(term) == \E i \in 1..Len(labels) : labels[i] = term

\* a lookup that keeps the first pair of a label instead of the last
DictGetFirst(term) ==
    LET first_i == CHOOSE i \in 1..Len(labels) :
                      /\ labels[i] = term
                      /\ \A j \in 1..(i-1) : labels[j] # term
    IN evidences[first_i]

\* dict(zip(self.labels, self.evidences)): d[term], a later pair replaces
\* an earlier one with the same label
DictGet(term) ==
    LET last_i == CHOOSE i \in 1..Len(labels) :
                     /\ labels[i] = term
                     /\ \A j \in (i+1)..Len(labels) : labels[j] # term
    IN evidences[last_i]

\* the label combinations of count_votes
combinations ==
    << <<"authors", "pubstring", "volume", "year">>,
       <<"authors", "year", "page">> >>

\* count_votes: the inner loop over the terms of one combination
vote(fields) ==
    Cardinality({ k \in 1..Len(fields) :
                    /\ InDict(fields[k])
                    /\ DictGet(fields[k]) = EVIDENCE_SCORE_MAX })

\* Evidences.count_votes()
count_votes ==
    \E c \in 1..Len(combinations) :
        vote(combinations[c]) = Len(combinations[c])

\* Evidences.single_veto_from(field_label)
single_veto_from(field_label) ==
    LET neg_inds == {ind \in 1..Len(evidences) : evidences[ind] <= 0}
    IN  IF Cardinality(neg_inds) = 1
        THEN \E ind \in neg_inds : labels[ind] = field_label
        ELSE FALSE

\* __getitem__ that returns the first score of the label
getitem_first(label) ==
    IF InDict(label) THEN <<DictGetFirst(label)>> ELSE None

\* Evidences.__getitem__(label): <<d[label]>>, or None for a label not held
getitem(label) ==
    IF InDict(label) THEN <<DictGet(label)>> ELSE None

\* Evidences.__len__()
len == Len(evidences)

--------------------------------------------------------------------------
(* Evidences: rich comparisons *)

CmpOps == {"lt", "le", "gt", "ge", "eq"}

\* right-hand operands: None, a number, another Evidences
NoneOperand == [kind |-> "None", val |-> 0, evidences |-> <<>>]
NumOperand(n) == [kind |-> "number", val |-> n, evidences |-> <<>>]
EvOperand(es) == [kind |-> "Evidences", val |-> 0, evidences |-> es]

CmpNumbers == (EVIDENCE_SCORE_MIN * CmpLen) .. (EVIDENCE_SCORE_MAX * CmpLen)

CmpOperands ==
    {NoneOperand}
    \cup { NumOperand(n) : n \in CmpNumbers }
    \cup { EvOperand(o.evidences) : o \in OtherEvidences(0, Scores) \cup OtherEvidences(1, Scores) }

\* other.get_score() succeeds: other has the method
HasGetScore(other) == other.kind = "Evidences"

\* other.get_score() of an operand that was not scored before
OtherScore(other) ==
    IF other.evidences = <<>> THEN 0 ELSE SeqSum(other.evidences)

\* Python truth value of the operand, "if other:"
Truthy(other) ==
    CASE other.kind = "None" -> FALSE
      [] other.kind = "number" -> other.val # 0
      [] OTHER -> Len(other.evidences) # 0

\* Evidences.__lt__
lt(other) ==
    IF HasGetScore(other) THEN get_score_value < OtherScore(other)
    ELSE IF Truthy(other) THEN get_score_value < other.val
    ELSE FALSE

\* Evidences.__le__
le(other) ==
    IF HasGetScore(other) THEN get_score_value <= OtherScore(other)
    ELSE IF Truthy(other) THEN get_score_value <= other.val
    ELSE FALSE

\* Evidences.__gt__
gt(other) ==
    IF HasGetScore(other) THEN get_score_value > OtherScore(other)
    ELSE IF Truthy(other) THEN get_score_value > other.val
    ELSE FALSE

\* __ge__ without the "if other" guard in front of the numeric comparison
ge_no_guard(other) ==
    IF HasGetScore(other) THEN get_score_value >= OtherScore(other)
    ELSE IF other.kind = "number" THEN get_score_value >= other.val
    ELSE FALSE

\* Evidences.__ge__
ge(other) ==
    IF HasGetScore(other) THEN get_score_value >= OtherScore(other)
    ELSE IF Truthy(other) THEN get_score_value >= other.val
    ELSE FALSE

\* Evidences.__eq__
eq(other) ==
    IF HasGetScore(other) THEN get_score_value = OtherScore(other)
    ELSE IF Truthy(other) THEN get_score_value = other.val
    ELSE FALSE

\* self <op> other: the method runs self.get_score() first, which fills
\* the cache, and returns a boolean
compare(op, other) ==
    /\ cmp_op' = op
    /\ cmp_other' = other
    /\ cmp_ret' = CASE op = "lt" -> lt(other)
                    [] op = "le" -> le(other)
                    [] op = "gt" -> gt(other)
                    [] op = "ge" -> ge(other)
                    [] OTHER -> eq(other)
    /\ score' = get_score_cache
    /\ exc' = "none"
    /\ UNCHANGED <<evidences, labels, min_score, max_score>>

CmpIdle ==
    /\ cmp_op = "none"
    /\ cmp_other = NoneOperand
    /\ cmp_ret = FALSE

--------------------------------------------------------------------------
(* parser/crf.py: CRFClassifier.create_crf, save, load; create_text_model *)

\* create_crf: "num_tries = 10 if generate_fold else 1"
NUM_TRIES_GENERATED == 10
NUM_TRIES_STATIC == 1

\* create_crf: "while (score <= 0.90) ...", in hundredths
RETRY_THRESHOLD == 90

\* what evaluate() may return, in hundredths
TrainScores == {0, 50, 90, 95}

\* the statements of one attempt that may raise
AttemptStages == {"get_train_data", "train", "get_test_data", "evaluate"}

\* where save/load may fail: 0 at open(), 1..3 at that part of the stream,
\* 4 not at all
FailPoints == 0..4

\* the model file shipped with the service
ShippedStream == <<"crf.shipped", "label_code.shipped", "nltk_tagger.shipped">>

\* CRFClassifier.__init__ leaves crf, label_code and nltk_tagger unset
CrfInit ==
    /\ pc = "idle"
    /\ caller = "none"
    /\ generate_fold = FALSE
    /\ num_tries = 0
    /\ crf_score = 0
    /\ attempts = 0
    /\ last = "none"
    /\ crf_ret = "pending"
    /\ save_ret = "pending"
    /\ load_ret = "pending"
    /\ result = "pending"
    /\ escaped = FALSE
    /\ save_calls = 0
    /\ file \in {None, <<ShippedStream>>}
    /\ crf = "unset"
    /\ label_code = "unset"
    /\ nltk_tagger = "unset"

\* a new call by the caller: nothing returned yet
NewCall(who) ==
    /\ caller' = who
    /\ generate_fold' = FALSE
    /\ num_tries' = 0
    /\ crf_score' = 0
    /\ attempts' = 0
    /\ last' = "none"
    /\ crf_ret' = "pending"
    /\ save_ret' = "pending"
    /\ load_ret' = "pending"
    /\ escaped' = FALSE
    /\ save_calls' = 0

\* an exception leaves create_crf: it reaches the caller, unless the caller
\* is create_text_model, whose except clause returns None
RaiseFromCreateCrf ==
    /\ crf_ret' = "raised"
    /\ pc' = "idle"
    /\ IF caller = "create_text_model"
       THEN result' = "None" /\ UNCHANGED escaped
       ELSE escaped' = TRUE /\ UNCHANGED result

\* the caller calls crf.create_crf() on its classifier
call_create_crf ==
    /\ pc = "idle"
    /\ NewCall("none")
    /\ result' = "pending"
    /\ pc' = "create_crf"
    /\ UNCHANGED <<file, crf, label_code, nltk_tagger>>

\* create_crf, the statements before the loop: load the tagger, build the
\* learner, load_training_data(), score = 0, num_tries
create_crf_setup(outcome) ==
    /\ pc = "create_crf"
    /\ CASE outcome = "tagger_raises" ->
              /\ RaiseFromCreateCrf
              /\ UNCHANGED <<generate_fold, num_tries, crf_score,
                             crf, label_code, nltk_tagger>>
         [] outcome = "load_training_data_raises" ->
              /\ RaiseFromCreateCrf
              /\ nltk_tagger' = "nltk_tagger.trained"
              /\ crf' = "crf.unfitted"
              /\ UNCHANGED <<generate_fold, num_tries, crf_score, label_code>>
         [] OTHER ->
              /\ nltk_tagger' = "nltk_tagger.trained"
              /\ crf' = "crf.unfitted"
              /\ label_code' = "label_code.trained"
              /\ generate_fold' = (outcome = "generated")
              /\ crf_score' = 0
              /\ num_tries' = IF outcome = "generated"
                              THEN NUM_TRIES_GENERATED ELSE NUM_TRIES_STATIC
              /\ pc' = "loop"
              /\ UNCHANGED <<crf_ret, result, escaped>>
    /\ UNCHANGED <<caller, attempts, last, save_ret, load_ret, save_calls, file>>

SetupOutcomes ==
    {"tagger_raises", "load_training_data_raises", "static", "generated"}

\* create_crf: the loop condition
LoopCondition == crf_score <= RETRY_THRESHOLD /\ num_tries > 0

\* a pass that raises and skips "num_tries -= 1", as if the decrement
\* stood inside the try block
attempt_raises_keeps_try(stage) ==
    /\ pc = "loop"
    /\ LoopCondition
    /\ crf' = CASE stage = "get_train_data" -> crf
                [] stage = "train" -> "crf.partial"
                [] OTHER -> "crf.fitted"
    /\ attempts' = attempts + 1
    /\ last' = "raised"
    /\ UNCHANGED <<pc, caller, generate_fold, num_tries, crf_score, crf_ret,
                   save_ret, load_ret, result, escaped, save_calls, file,
                   label_code, nltk_tagger>>

\* one pass of the loop in which a statement of the try block raises: the
\* except clause logs, score keeps its value, num_tries -= 1
attempt_raises(stage) ==
    /\ pc = "loop"
    /\ LoopCondition
    /\ crf' = CASE stage = "get_train_data" -> crf
                [] stage = "train" -> "crf.partial"
                [] OTHER -> "crf.fitted"
    /\ num_tries' = num_tries - 1
    /\ attempts' = attempts + 1
    /\ last' = "raised"
    /\ UNCHANGED <<pc, caller, generate_fold, crf_score, crf_ret, save_ret,
                   load_ret, result, escaped, save_calls, file, label_code,
                   nltk_tagger>>

\* one pass of the loop that fits and evaluates: score = evaluate(...),
\* num_tries -= 1
attempt_completes(s) ==
    /\ pc = "loop"
    /\ LoopCondition
    /\ crf' = "crf.fitted"
    /\ crf_score' = s
    /\ num_tries' = num_tries - 1
    /\ attempts' = attempts + 1
    /\ last' = "completed"
    /\ UNCHANGED <<pc, caller, generate_fold, crf_ret, save_ret, load_ret,
                   result, escaped, save_calls, file, label_code, nltk_tagger>>

\* create_crf: the loop is left, "return (score > 0)"
create_crf_return ==
    /\ pc = "loop"
    /\ ~LoopCondition
    /\ crf_ret' = IF crf_score > 0 THEN "True" ELSE "False"
    /\ pc' = IF caller = "create_text_model" THEN "ctm_check" ELSE "idle"
    /\ UNCHANGED <<caller, generate_fold, num_tries, crf_score, attempts, last,
                   save_ret, load_ret, result, escaped, save_calls, file,
                   crf, label_code, nltk_tagger>>

\* the first part of the bundle that cannot be dumped (4: none)
FirstUnset ==
    IF crf = "unset" THEN 1
    ELSE IF label_code = "unset" THEN 2
    ELSE IF nltk_tagger = "unset" THEN 3
    ELSE 4

Min(x, y) == IF x <= y THEN x ELSE y

\* where save really fails when the environment fails it at fail_at
SaveFailsAt(fail_at) == Min(fail_at, FirstUnset)

\* CRFClassifier.save: open "wb", dump crf, label_code, nltk_tagger; any
\* exception is caught and gives False
save(fail_at) ==
    LET f == SaveFailsAt(fail_at)
        bundle == <<crf, label_code, nltk_tagger>>
    IN /\ file' = IF f = 0 THEN file ELSE <<SubSeq(bundle, 1, Min(f - 1, 3))>>
       /\ save_ret' = IF f = 4 THEN "True" ELSE "False"

\* the first part of the stream that cannot be read (4: none)
FirstUnreadable == IF file = None THEN 0 ELSE Min(Len(file[1]) + 1, 4)

\* where load really fails when the environment fails it at fail_at
LoadFailsAt(fail_at) == Min(fail_at, FirstUnreadable)

\* CRFClassifier.load: open "rb", read crf, label_code, nltk_tagger one
\* after the other into the object; any exception is caught, and the
\* method then returns nothing
load(fail_at) ==
    LET f == LoadFailsAt(fail_at)
    IN /\ crf' = IF f >= 2 THEN file[1][1] ELSE crf
       /\ label_code' = IF f >= 3 THEN file[1][2] ELSE label_code
       /\ nltk_tagger' = IF f >= 4 THEN file[1][3] ELSE nltk_tagger
       /\ load_ret' = IF f = 4 THEN "crf" ELSE "None"

\* the caller calls crf.save() on its classifier
call_save(fail_at) ==
    /\ pc = "idle"
    /\ caller' = "none"
    /\ save(fail_at)
    /\ save_calls' = 1
    /\ crf_ret' = "pending" /\ load_ret' = "pending" /\ result' = "pending"
    /\ escaped' = FALSE
    /\ generate_fold' = FALSE /\ num_tries' = 0 /\ crf_score' = 0
    /\ attempts' = 0 /\ last' = "none"
    /\ UNCHANGED <<pc, crf, label_code, nltk_tagger>>

\* the caller calls crf.load() on its classifier
call_load(fail_at) ==
    /\ pc = "idle"
    /\ caller' = "none"
    /\ load(fail_at)
    /\ crf_ret' = "pending" /\ save_ret' = "pending" /\ result' = "pending"
    /\ escaped' = FALSE /\ save_calls' = 0
    /\ generate_fold' = FALSE /\ num_tries' = 0 /\ crf_score' = 0
    /\ attempts' = 0 /\ last' = "none"
    /\ UNCHANGED <<pc, file>>

\* create_text_model: crf = CRFClassifierText(), then crf.create_crf() is
\* entered; a constructor that raises is caught and gives None
call_create_text_model(constructed) ==
    /\ pc = "idle"
    /\ NewCall("create_text_model")
    /\ IF constructed
       THEN /\ pc' = "create_crf"
            /\ result' = "pending"
            /\ crf' = "unset"
            /\ label_code' = "unset"
            /\ nltk_tagger' = "unset"
       ELSE /\ pc' = "idle"
            /\ result' = "None"
            /\ UNCHANGED <<crf, label_code, nltk_tagger>>
    /\ UNCHANGED file

\* create_text_model that evaluates crf.save() although create_crf()
\* returned False
ctm_training_failed_saves ==
    /\ pc = "ctm_check"
    /\ crf_ret = "False"
    /\ \E fail_at \in FailPoints : save(fail_at)
    /\ save_calls' = save_calls + 1
    /\ result' = "None"
    /\ pc' = "idle"
    /\ UNCHANGED <<caller, generate_fold, num_tries, crf_score, attempts, last,
                   crf_ret, load_ret, escaped, crf, label_code, nltk_tagger>>

\* create_text_model: create_crf() returned False, "and" does not evaluate
\* crf.save(), the bare raise is caught and gives None
ctm_training_failed ==
    /\ pc = "ctm_check"
    /\ crf_ret = "False"
    /\ result' = "None"
    /\ pc' = "idle"
    /\ UNCHANGED <<caller, generate_fold, num_tries, crf_score, attempts, last,
                   crf_ret, save_ret, load_ret, escaped, save_calls, file,
                   crf, label_code, nltk_tagger>>

\* create_text_model: create_crf() returned True, crf.save() is evaluated;
\* the classifier is returned if it gave True, None otherwise
ctm_save(fail_at) ==
    /\ pc = "ctm_check"
    /\ crf_ret = "True"
    /\ save(fail_at)
    /\ save_calls' = save_calls + 1
    /\ result' = IF save_ret' = "True" THEN "crf" ELSE "None"
    /\ pc' = "idle"
    /\ UNCHANGED <<caller, generate_fold, num_tries, crf_score, attempts, last,
                   crf_ret, load_ret, escaped, crf, label_code, nltk_tagger>>

--------------------------------------------------------------------------
(* The Evidences object under add_evidence, + and get_score *)

\* the classifier is not used: no call is made, no model file is on disk
CrfIdle == CrfInit /\ file = None

FnIdle == fn_args = <<>> /\ fn_ret = <<>>

Init == EvInit /\ CmpIdle /\ CrfIdle /\ FnIdle

\* the calls made on the object, with scores from S and at most max
\* evidences held
EvNext(S, max) ==
    \/ \E e \in S, l \in Labels :
          /\ Len(evidences) < max
          /\ add_evidence(e, l)
          /\ UNCHANGED <<cmp_vars, crf_vars, fn_vars>>
    \/ \E n \in 0..MaxOther :
          /\ Len(evidences) + n <= max
          /\ \E other \in OtherEvidences(n, S) : add(other)
          /\ UNCHANGED <<cmp_vars, crf_vars, fn_vars>>
    \/ /\ 2 * Len(evidences) <= max
       /\ add([evidences |-> evidences, labels |-> labels])
       /\ UNCHANGED <<cmp_vars, crf_vars, fn_vars>>
    \/ /\ get_score
       /\ UNCHANGED <<cmp_vars, crf_vars, fn_vars>>

Next == EvNext(Scores, MaxLen)

Spec == Init /\ [][Next]_vars

--------------------------------------------------------------------------
(* The same object, grown far enough for count_votes *)

NextVotes == EvNext(VoteScores, MaxVotes)

SpecVotes == Init /\ [][NextVotes]_vars

--------------------------------------------------------------------------
(* The comparisons, tried on every Evidences of at most CmpLen scores *)

InitCmp ==
    /\ \E n \in 0..CmpLen :
          /\ evidences \in [1..n -> EVIDENCE_SCORE_MIN..EVIDENCE_SCORE_MAX]
          /\ labels \in [1..n -> {"authors"}]
    /\ score \in {None, <<SeqSum(evidences)>>}
    /\ evidences = <<>> => score = None
    /\ min_score = EVIDENCE_SCORE_MIN
    /\ max_score = EVIDENCE_SCORE_MAX
    /\ exc = "none"
    /\ CmpIdle
    /\ CrfIdle
    /\ FnIdle

NextCmp ==
    \E op \in CmpOps, other \in CmpOperands :
        /\ compare(op, other)
        /\ UNCHANGED <<crf_vars, fn_vars>>

SpecCmp == InitCmp /\ [][NextCmp]_vars

--------------------------------------------------------------------------
(* The classifier under create_crf, save, load and create_text_model *)

\* the steps of a running create_crf loop
LoopStep ==
    \/ \E stage \in AttemptStages : attempt_raises(stage)
    \/ \E s \in TrainScores : attempt_completes(s)
    \/ create_crf_return

NextCrf ==
    \/ call_create_crf /\ UNCHANGED <<ev_vars, cmp_vars, fn_vars>>
    \/ \E outcome \in SetupOutcomes :
          create_crf_setup(outcome) /\ UNCHANGED <<ev_vars, cmp_vars, fn_vars>>
    \/ \E stage \in AttemptStages :
          attempt_raises(stage) /\ UNCHANGED <<ev_vars, cmp_vars, fn_vars>>
    \/ \E s \in TrainScores :
          attempt_completes(s) /\ UNCHANGED <<ev_vars, cmp_vars, fn_vars>>
    \/ create_crf_return /\ UNCHANGED <<ev_vars, cmp_vars, fn_vars>>
    \/ \E fail_at \in FailPoints :
          call_save(fail_at) /\ UNCHANGED <<ev_vars, cmp_vars, fn_vars>>
    \/ \E fail_at \in FailPoints :
          call_load(fail_at) /\ UNCHANGED <<ev_vars, cmp_vars, fn_vars>>
    \/ \E constructed \in BOOLEAN :
          call_create_text_model(constructed) /\ UNCHANGED <<ev_vars, cmp_vars, fn_vars>>
    \/ ctm_training_failed /\ UNCHANGED <<ev_vars, cmp_vars, fn_vars>>
    \/ \E fail_at \in FailPoints :
          ctm_save(fail_at) /\ UNCHANGED <<ev_vars, cmp_vars, fn_vars>>

\* a running create_crf is not suspended for ever: each pass of the loop
\* and the return are taken
InitCrf == EvInit /\ CmpIdle /\ CrfInit /\ FnIdle

SpecCrf ==
    InitCrf /\ [][NextCrf]_vars /\ WF_vars(LoopStep /\ UNCHANGED <<ev_vars, cmp_vars, fn_vars>>)

--------------------------------------------------------------------------
(* parser/crf.py: the label-code map built by format_training_data *)

MaxRefs == 2        \* references in a training corpus
MaxRefLen == 2      \* tokens in one training reference

CorpusLabels == {"AUTHOR_LAST_NAME", "YEAR", "PUNCTUATION_COMMA"}

SeqsUpTo(S, n) == UNION {[1..k -> S] : k \in 0..n}

\* a python dict is kept as its items in insertion order, <<key, value>> each
DictHas(d, k) == \E i \in 1..Len(d) : d[i][1] = k

DictItem(d, k) == d[CHOOSE i \in 1..Len(d) : d[i][1] = k][2]

\* d[k] = v : an existing key keeps its place and takes the new value
DictSet(d, k, v) ==
    IF DictHas(d, k)
    THEN [i \in 1..Len(d) |-> IF d[i][1] = k THEN <<k, v>> ELSE d[i]]
    ELSE Append(d, <<k, v>>)

RECURSIVE Flatten(_)
Flatten(ll) == IF ll = <<>> THEN <<>> ELSE Head(ll) \o Flatten(Tail(ll))

\* the two nested loops of encoder, started with label_code and numeric
RECURSIVE encoder_renumbers_loop(_, _, _)
encoder_renumbers_loop(ls, lc, numeric) ==
    IF ls = <<>> THEN lc
    ELSE encoder_renumbers_loop(Tail(ls), DictSet(lc, Head(ls), numeric + 1),
                                numeric + 1)

RECURSIVE encoder_loop(_, _, _)
encoder_loop(ls, lc, numeric) ==
    IF ls = <<>> THEN lc
    ELSE IF numeric >= 0 /\ DictHas(lc, Head(ls))
         THEN encoder_loop(Tail(ls), lc, numeric)
         ELSE encoder_loop(Tail(ls), DictSet(lc, Head(ls), numeric + 1),
                           numeric + 1)

encoder(ls) == encoder_loop(Flatten(ls), <<>>, -1)

StopIteration == <<"StopIteration">>

\* decoder: for each code the first key of label_code that carries it
decoder(lc, numeric_label) ==
    IF \A j \in 1..Len(numeric_label) :
          \E i \in 1..Len(lc) : lc[i][2] = numeric_label[j]
    THEN [j \in 1..Len(numeric_label) |->
            LET i == CHOOSE i \in 1..Len(lc) :
                        /\ lc[i][2] = numeric_label[j]
                        /\ \A h \in 1..(i - 1) : lc[h][2] # numeric_label[j]
            IN  lc[i][1]]
    ELSE StopIteration

\* format_training_data, its label part: the map and the coded references
format_training_data ==
    /\ fn_ret = <<>>
    /\ LET lc == encoder(fn_args)
       IN  fn_ret' = <<[label_code |-> lc,
                        numeric_labels |->
                            [r \in 1..Len(fn_args) |->
                                [t \in 1..Len(fn_args[r]) |->
                                    DictItem(lc, fn_args[r][t])]],
                        decoded |-> <<>>,
                        stage |-> "encoded"]>>
    /\ UNCHANGED fn_args

\* decoder applied to every coded reference with the map just built
call_decoder ==
    /\ fn_ret # <<>>
    /\ fn_ret[1].stage = "encoded"
    /\ fn_ret' = <<[fn_ret[1] EXCEPT
                      !.decoded = [r \in 1..Len(fn_ret[1].numeric_labels) |->
                                      decoder(fn_ret[1].label_code,
                                              fn_ret[1].numeric_labels[r])],
                      !.stage = "decoded"]>>
    /\ UNCHANGED fn_args

InitEncoder ==
    /\ EvInit /\ CmpIdle /\ CrfIdle
    /\ fn_args \in SeqsUpTo(SeqsUpTo(CorpusLabels, MaxRefLen), MaxRefs)
    /\ fn_ret = <<>>

NextEncoder ==
    \/ format_training_data /\ UNCHANGED <<ev_vars, cmp_vars, crf_vars>>
    \/ call_decoder /\ UNCHANGED <<ev_vars, cmp_vars, crf_vars>>

SpecEncoder == InitEncoder /\ [][NextEncoder]_vars

--------------------------------------------------------------------------
(* parser/crf.py: the per-token feature function get_data_features.       *)
(* A reference is a list of <<label, word>> pairs.  Words come from a     *)
(* small vocabulary in which no word is a substring of another, so that   *)
(* python's substring test on a space-joined string is membership in the  *)
(* list of its words; a string of the segmentation dictionary is kept as  *)
(* that list.  Indices are python's, counted from 0.                      *)

MaxTokens == 3      \* tokens in one reference

TaggedTokens ==
    { <<"AUTHOR_LAST_NAME", "Smith">>, <<"AUTHOR_MIDDLE_NAME", "M">>,
      <<"PUNCTUATION_DOT", ".">>, <<"YEAR", "2010">>, <<"TITLE", "Stars">>,
      <<"JOURNAL", "Icarus">>, <<"PAGE", "L12">>, <<"ET_AL", "al">> }

At(s, i) == s[i + 1]

IDENTIFYING_WORDS ==
    << <<"ARXIV_IDENTIFIER", {"arxiv"}>>, <<"EDITOR_IDENTIFIER", {"editor", "eds", "ed"}>>,
       <<"ET_AL", {"et", "al"}>>, <<"DOI_IDENTIFIER", {"doi"}>>,
       <<"ISSUE_IDENTIFIER", {"issue"}>>, <<"ISSN__IDENTIFIER", {"issn"}>>,
       <<"PAGE_IDENTIFIER", {"page", "pages", "pp", "p"}>>,
       <<"VERSION_IDENTIFIER", {"version"}>>, <<"VOLUME_IDENTIFIER", {"volume", "vol"}>>,
       <<"ISBN_IDENTIFIER", {"isbn"}>>, <<"ASCL_IDENTIFIER", {"ascl"}>> >>

PUNCTUATIONS ==
    << <<"PUNCTUATION_BRACKETS", {"[", "]"}>>, <<"PUNCTUATION_COLON", {":"}>>,
       <<"PUNCTUATION_COMMA", {","}>>, <<"PUNCTUATION_DOT", {"."}>>,
       <<"PUNCTUATION_PARENTHESIS", {"(", ")"}>>, <<"PUNCTUATION_QUOTES", {"\"", "'"}>>,
       <<"PUNCTUATION_NUM", {"#"}>>, <<"PUNCTUATION_HYPEN", {"-"}>>,
       <<"PUNCTUATION_FORWARD_SLASH", {"/"}>>, <<"PUNCTUATION_SEMICOLON", {";"}>> >>

SEGMENT_DICT_KEYS ==
    <<"year", "title", "journal", "publisher", "volume", "issue", "page", "doi",
      "arxiv", "issn", "unknown", "version", "ascl", "unknown_url">>

AUTHOR_TAGS ==
    {"AUTHOR_LAST_NAME", "PUNCTUATION_COMMA", "AUTHOR_FIRST_NAME",
     "AUTHOR_FIRST_NAME_FULL", "PUNCTUATION_DOT", "AUTHOR_MIDDLE_NAME", "AND",
     "ET_AL", "PUNCTUATION_HYPEN", "AUTHOR_COLLABORATION"}

EDITOR_TAGS == {"EDITOR_LAST_NAME", "EDITOR_FIRST_NAME", "EDITOR_MIDDLE_NAME"}

NUMERIC_TAGS ==
    {"ARXIV", "DOI", "ISSUE", "PAGE", "VERSION", "VOLUME", "ISSN", "YEAR", "ASCL"}

STOPWORD_TAGS == {"AND", "IN", "OF", "THE"}

\* key.upper() and tag.lower() on the keys and tags above
Upper(key) ==
    CASE key = "year" -> "YEAR" [] key = "title" -> "TITLE"
      [] key = "journal" -> "JOURNAL" [] key = "publisher" -> "PUBLISHER"
      [] key = "volume" -> "VOLUME" [] key = "issue" -> "ISSUE"
      [] key = "page" -> "PAGE" [] key = "doi" -> "DOI"
      [] key = "arxiv" -> "ARXIV" [] key = "issn" -> "ISSN"
      [] key = "unknown" -> "UNKNOWN" [] key = "version" -> "VERSION"
      [] key = "ascl" -> "ASCL" [] key = "unknown_url" -> "UNKNOWN_URL"

Lower(tag) == CHOOSE key \in {At(SEGMENT_DICT_KEYS, i) : i \in 0..13} : Upper(key) = tag

\* what the regular expressions and str methods give on the vocabulary
WordLen(w) ==
    CASE w = "Smith" -> 5 [] w = "M" -> 1 [] w = "." -> 1 [] w = "2010" -> 4
      [] w = "Stars" -> 5 [] w = "Icarus" -> 6 [] w = "L12" -> 3 [] w = "al" -> 2

IS_CAPITAL(w) == w \in {"M"}

FirstIsUpper(w) == w \in {"Smith", "M", "Stars", "Icarus", "L12"}

IS_ALPHABET(w) == w \in {"Smith", "M", "Stars", "Icarus", "al"}

IS_NUMERIC(w) == w \in {"2010"}

IS_ALPHANUMERIC(w) == w \in {"L12"}

MATCH_PUNCTUATION(w) == w \in {"."}

stopwords == {"and", "in", "of", "the"}

academic_publishers_locations == {"Cambridge", "London"}

punctuations_str ==
    UNION {PUNCTUATIONS[i][2] : i \in 1..Len(PUNCTUATIONS)}

int(b) == IF b THEN 1 ELSE 0

\* segment_dict.get(key, '')
SegGet(segment_dict, key) ==
    IF key \in DOMAIN segment_dict THEN segment_dict[key] ELSE <<>>

InText(w, text) == \E i \in 1..Len(text) : text[i] = w

compare_string(sub_str, str) ==
    \E i \in 1..Len(str) : ~MATCH_PUNCTUATION(str[i]) /\ str[i] = sub_str

search(pattern, text) == InText(pattern, text)

tokenize_identified_multi_words(text) == text

\* lookahead and lookbehind: the nearest token that is not punctuation
HasAfter(tokens, index) ==
    \E i \in (index + 1)..(Len(tokens) - 1) : ~MATCH_PUNCTUATION(At(tokens, i))

lookahead(tokens, index) ==
    At(tokens, CHOOSE i \in (index + 1)..(Len(tokens) - 1) :
                  /\ ~MATCH_PUNCTUATION(At(tokens, i))
                  /\ \A h \in (index + 1)..(i - 1) : MATCH_PUNCTUATION(At(tokens, h)))

HasBefore(tokens, index) ==
    \E i \in 0..(index - 1) : ~MATCH_PUNCTUATION(At(tokens, i))

lookbehind(tokens, index) ==
    At(tokens, CHOOSE i \in 0..(index - 1) :
                  /\ ~MATCH_PUNCTUATION(At(tokens, i))
                  /\ \A h \in (i + 1)..(index - 1) : MATCH_PUNCTUATION(At(tokens, h)))

BesideWordOf(ref_data, index, text) ==
    \/ HasBefore(ref_data, index) /\ compare_string(lookbehind(ref_data, index), text)
    \/ HasAfter(ref_data, index) /\ compare_string(lookahead(ref_data, index), text)

\* next(i for i, v in enumerate(s) if v in S), and the same on reversed(s)
HasIn(s, S) == \E i \in 0..(Len(s) - 1) : At(s, i) \in S

FirstIdx(s, S) ==
    CHOOSE i \in 0..(Len(s) - 1) :
        At(s, i) \in S /\ \A h \in 0..(i - 1) : At(s, h) \notin S

FirstIdxReversed(s, S) ==
    CHOOSE r \in 0..(Len(s) - 1) :
        /\ At(s, Len(s) - 1 - r) \in S
        /\ \A h \in 0..(r - 1) : At(s, Len(s) - 1 - h) \notin S

is_numeric_tag(ref_data, index, ref_label, current_label, segment_dict) ==
    IF Len(ref_label) > 0
    THEN int(At(ref_label, index) = current_label)
    ELSE int(<<At(ref_data, index)>> = segment_dict[Lower(current_label)])

is_numeric(ref_data, index, ref_label, segment_dict) ==
    IF Len(ref_label) > 0
    THEN int(At(ref_label, index) \in NUMERIC_TAGS)
    ELSE int(\E tag \in NUMERIC_TAGS :
                <<At(ref_data, index)>> = segment_dict[Lower(tag)])

is_unknown(ref_data, index, ref_label, segment_dict) ==
    IF Len(ref_label) > 0 THEN int(At(ref_label, index) = "NA")
    ELSE IF At(ref_data, index) \in punctuations_str THEN 0
    ELSE int(\/ search(At(ref_data, index), SegGet(segment_dict, "unknown"))
             \/ search(At(ref_data, index), SegGet(segment_dict, "unknown_url")))

is_title(ref_data, index, ref_label, segment_dict) ==
    LET w == At(ref_data, index)
        title == SegGet(segment_dict, "title")
    IN  IF Len(ref_label) > 0
        THEN int(At(ref_label, index) \in {"TITLE", "BOOK_TITLE"})
        ELSE IF InText(w, title) /\ w \notin punctuations_str
        THEN int(\/ compare_string(w, title) /\ w # "and"
                 \/ BesideWordOf(ref_data, index, title))
        ELSE 0

is_journal(ref_data, index, ref_label, segment_dict) ==
    LET w == At(ref_data, index)
        journal == SegGet(segment_dict, "journal")
    IN  IF Len(ref_label) > 0
        THEN int(At(ref_label, index) = "JOURNAL")
        ELSE IF InText(w, journal) /\ w \notin punctuations_str
        THEN int(\/ compare_string(w, journal) /\ WordLen(w) > 1
                 \/ BesideWordOf(ref_data, index, journal))
        ELSE 0

is_publisher(ref_data, index, ref_label, segment_dict) ==
    IF Len(ref_label) > 0 THEN int(At(ref_label, index) = "PUBLISHER")
    ELSE int(compare_string(At(ref_data, index), SegGet(segment_dict, "publisher")))

is_location(ref_data, index, ref_label) ==
    IF Len(ref_label) > 0 THEN int(At(ref_label, index) = "PUBLISHER_LOCATION")
    ELSE int(At(ref_data, index) \in academic_publishers_locations)

is_stopword(ref_data, index, ref_label) ==
    IF Len(ref_label) > 0 THEN int(At(ref_label, index) \in STOPWORD_TAGS)
    ELSE int(At(ref_data, index) \in stopwords)

is_author(ref_data, index, ref_label, segment_dict) ==
    LET w == At(ref_data, index)
        authors == SegGet(segment_dict, "authors")
    IN  IF Len(ref_label) > 0
        THEN int(At(ref_label, index) \in AUTHOR_TAGS)
        ELSE IF InText(w, authors) /\ w \notin punctuations_str
        THEN int(\/ compare_string(w, authors) /\ WordLen(w) > 1 /\ w # "and"
                 \/ BesideWordOf(ref_data, index, authors))
        ELSE 0

is_editor(ref_data, index, ref_label, segment_dict) ==
    IF Len(ref_label) > 0 THEN int(At(ref_label, index) \in EDITOR_TAGS)
    ELSE int(/\ compare_string(At(ref_data, index), SegGet(segment_dict, "editors"))
             /\ ~compare_string(At(ref_data, index), SegGet(segment_dict, "journal")))

\* position of the entry of an ordered dict whose words hold w, 0 if none
WhichEntry(od, w) ==
    IF \E i \in 1..Len(od) : w \in od[i][2]
    THEN CHOOSE i \in 1..Len(od) :
            w \in od[i][2] /\ \A h \in 1..(i - 1) : w \notin od[h][2]
    ELSE 0

\* od.keys().index(label) + 1 if label in od.keys() else 0
KeyIndex(od, label) ==
    IF \E i \in 1..Len(od) : od[i][1] = label
    THEN CHOOSE i \in 1..Len(od) : od[i][1] = label
    ELSE 0

isalpha(w) == w \in {"Smith", "M", "Stars", "Icarus", "al"}

\* the vocabulary holds no upper-case identifying word: lower() changes nothing
is_identifying_word(ref_data_word) ==
    IF isalpha(ref_data_word) THEN WhichEntry(IDENTIFYING_WORDS, ref_data_word)
    ELSE 0

which_identifying_word(ref_data, index, ref_label) ==
    IF Len(ref_label) > 0 THEN KeyIndex(IDENTIFYING_WORDS, At(ref_label, index))
    ELSE is_identifying_word(At(ref_data, index))

is_punctuation(punctuation) == WhichEntry(PUNCTUATIONS, punctuation)

which_punctuation(ref_data, index, ref_label) ==
    IF Len(ref_label) > 0 THEN KeyIndex(PUNCTUATIONS, At(ref_label, index))
    ELSE is_punctuation(At(ref_data, index))

\* a where_in_* value standing for the StopIteration that next() raises
StopIterationRaised == -1

\* the shared tail of where_in_*: 1 first, 2 last, 3 between, 0 otherwise
WhereByIndex(index, idx_first, idx_last) ==
    IF index = idx_first THEN 1
    ELSE IF index = idx_last THEN 2
    ELSE IF index > idx_first /\ index < idx_last THEN 3
    ELSE 0

AuthorPrefixed ==
    {"AUTHOR_LAST_NAME", "AUTHOR_FIRST_NAME", "AUTHOR_FIRST_NAME_FULL",
     "AUTHOR_MIDDLE_NAME", "AUTHOR_COLLABORATION"}

\* where_in_author / where_in_editor without labels: by the guessed string
WhereInGuessed(ref_data, index, text, other) ==
    LET w == At(ref_data, index)
        token == tokenize_identified_multi_words(text)
    IN  IF Len(text) > 0
        THEN IF InText(w, token) /\ InText(w, tokenize_identified_multi_words(other))
             THEN 0
             ELSE IF w = token[1] THEN 1
             ELSE IF w = token[Len(token)] THEN 2
             ELSE IF index > 0 /\ index < Len(token) THEN 3
             ELSE 0
        ELSE 0

where_in_author(ref_data, index, ref_label, segment_dict) ==
    LET firsts == {"AUTHOR_LAST_NAME", "AUTHOR_FIRST_NAME", "AUTHOR_FIRST_NAME_FULL",
                  "AUTHOR_COLLABORATION"}
        lasts  == firsts \cup {"ET_AL"}
    IN  IF Len(ref_label) > 0
        THEN IF HasIn(ref_label, AuthorPrefixed)
             THEN IF ~HasIn(ref_label, firsts) THEN StopIterationRaised
                  ELSE WhereByIndex(index, FirstIdx(ref_label, firsts),
                           Len(ref_label) - FirstIdxReversed(ref_label, lasts) - 1)
             ELSE 0
        ELSE WhereInGuessed(ref_data, index, SegGet(segment_dict, "authors"),
                            SegGet(segment_dict, "journal"))

where_in_editor(ref_data, index, ref_label, segment_dict) ==
    LET firsts == {"EDITOR_LAST_NAME", "EDITOR_FIRST_NAME"}
        lasts  == firsts \cup {"ET_AL"}
    IN  IF Len(ref_label) > 0
        THEN IF HasIn(ref_label, EDITOR_TAGS)
             THEN IF ~HasIn(ref_label, firsts) THEN StopIterationRaised
                  ELSE WhereByIndex(index, FirstIdx(ref_label, firsts),
                           Len(ref_label) - FirstIdxReversed(ref_label, lasts) - 1)
             ELSE 0
        ELSE WhereInGuessed(ref_data, index, SegGet(segment_dict, "editors"),
                            SegGet(segment_dict, "journal"))

where_in_title(ref_data, index, ref_label, segment_dict) ==
    LET tags == {"TITLE", "BOOK_TITLE"}
        w == At(ref_data, index)
        title == SegGet(segment_dict, "title")
        token == tokenize_identified_multi_words(title)
        n == Len(token)
        pair == Len(token) >= 2 /\ index > 1 /\ index < Len(ref_data) - 1
    IN  IF Len(ref_label) > 0
        THEN IF HasIn(ref_label, tags)
             THEN WhereByIndex(index, FirstIdx(ref_label, tags),
                               Len(ref_label) - FirstIdxReversed(ref_label, tags))
             ELSE 0
        ELSE IF Len(title) > 0
        THEN IF pair /\ w = token[1] /\ At(ref_data, index + 1) = token[2] THEN 1
             ELSE IF pair /\ w = token[n] /\ At(ref_data, index - 1) = token[n - 1] THEN 2
             ELSE IF w = token[1] THEN 1
             ELSE IF w = token[n] THEN 2
             ELSE IF \/ InText(w, token)
                     \/ /\ InText(w, SegGet(segment_dict, "unknown"))
                        /\ is_stopword(ref_data, index, <<>>) = 0
                  THEN 3
             ELSE 0
        ELSE 0

where_in_journal(ref_data, index, ref_label, segment_dict) ==
    LET tags == {"JOURNAL"}
        w == At(ref_data, index)
        journal == SegGet(segment_dict, "journal")
        token == tokenize_identified_multi_words(journal)
    IN  IF Len(ref_label) > 0
        THEN IF HasIn(ref_label, tags)
             THEN WhereByIndex(index, FirstIdx(ref_label, tags),
                               Len(ref_label) - FirstIdxReversed(ref_label, tags))
             ELSE 0
        ELSE IF Len(journal) > 0
        THEN IF /\ InText(w, token)
                /\ InText(w, tokenize_identified_multi_words(SegGet(segment_dict, "authors")))
             THEN 0
             ELSE IF w = token[1] THEN 1
             ELSE IF w = token[Len(token)] THEN 2
             ELSE IF InText(w, token) THEN 3
             ELSE 0
        ELSE 0

\* [member, where == 1, where == 2, where == 3]
WhereBlock(member, where) ==
    <<member, int(where = 1), int(where = 2), int(where = 3)>>

get_data_features_author(ref_data, index, ref_label, segment_dict) ==
    WhereBlock(is_author(ref_data, index, ref_label, segment_dict),
               where_in_author(ref_data, index, ref_label, segment_dict))

get_data_features_editor(ref_data, index, ref_label, segment_dict) ==
    WhereBlock(is_editor(ref_data, index, ref_label, segment_dict),
               where_in_editor(ref_data, index, ref_label, segment_dict))

get_data_features_title(ref_data, index, ref_label, segment_dict) ==
    WhereBlock(is_title(ref_data, index, ref_label, segment_dict),
               where_in_title(ref_data, index, ref_label, segment_dict))

get_data_features_journal(ref_data, index, ref_label, segment_dict) ==
    WhereBlock(is_journal(ref_data, index, ref_label, segment_dict),
               where_in_journal(ref_data, index, ref_label, segment_dict))

get_data_features_identifying_word(ref_data, index, ref_label) ==
    LET which == which_identifying_word(ref_data, index, ref_label)
    IN  <<int(is_identifying_word(At(ref_data, index)) > 0)>>
        \o [i \in 1..11 |-> int(which = i)]

get_data_features_punctuation_no_flag(ref_data, index, ref_label) ==
    LET which == which_punctuation(ref_data, index, ref_label)
    IN  [i \in 1..10 |-> int(which = i)]

get_data_features_punctuation(ref_data, index, ref_label) ==
    LET which == which_punctuation(ref_data, index, ref_label)
    IN  <<int(is_punctuation(At(ref_data, index)) > 0)>>
        \o [i \in 1..10 |-> int(which = i)]

\* <<F(index), F(index - 1) if any, F(index + 1) if any>>
Triple(F(_), index, last_index) ==
    <<F(index), IF index > 0 THEN F(index - 1) ELSE 0,
      IF index < last_index THEN F(index + 1) ELSE 0>>

\* the list literal of get_data_features, before the blocks are added
ScalarFeatures(ref_data, index, ref_label, segment_dict) ==
    LET last_index == Len(ref_data) - 1
    IN  Triple(LAMBDA i : WordLen(At(ref_data, i)), index, last_index)
        \o Triple(LAMBDA i : int(IS_CAPITAL(At(ref_data, i))), index, last_index)
        \o Triple(LAMBDA i : int(FirstIsUpper(At(ref_data, i))), index, last_index)
        \o Triple(LAMBDA i : int(IS_ALPHABET(At(ref_data, i))), index, last_index)
        \o Triple(LAMBDA i : int(IS_NUMERIC(At(ref_data, i))), index, last_index)
        \o Triple(LAMBDA i : is_numeric(ref_data, i, ref_label, segment_dict),
                  index, last_index)
        \o Triple(LAMBDA i : int(IS_ALPHANUMERIC(At(ref_data, i))), index, last_index)
        \o Triple(LAMBDA i : is_stopword(ref_data, i, ref_label), index, last_index)
        \o << is_numeric_tag(ref_data, index, ref_label, "YEAR", segment_dict),
              is_numeric_tag(ref_data, index, ref_label, "PAGE", segment_dict),
              is_numeric_tag(ref_data, index, ref_label, "VOLUME", segment_dict),
              is_numeric_tag(ref_data, index, ref_label, "ISSUE", segment_dict),
              is_numeric_tag(ref_data, index, ref_label, "DOI", segment_dict),
              is_numeric_tag(ref_data, index, ref_label, "ARXIV", segment_dict),
              is_numeric_tag(ref_data, index, ref_label, "ASCL", segment_dict),
              is_numeric_tag(ref_data, index, ref_label, "ISSN", segment_dict),
              is_location(ref_data, index, ref_label),
              is_publisher(ref_data, index, ref_label, segment_dict),
              is_unknown(ref_data, index, ref_label, segment_dict) >>

\* what get_data_features returns, or the exception that leaves it
get_data_features(ref_data, index, ref_label, segment_dict) ==
    IF StopIterationRaised \in
          {where_in_author(ref_data, index, ref_label, segment_dict),
           where_in_editor(ref_data, index, ref_label, segment_dict)}
    THEN [raised |-> "StopIteration", features |-> <<>>]
    ELSE [raised |-> "none",
          features |->
              ScalarFeatures(ref_data, index, ref_label, segment_dict)
              \o get_data_features_author(ref_data, index, ref_label, segment_dict)
              \o get_data_features_title(ref_data, index, ref_label, segment_dict)
              \o get_data_features_journal(ref_data, index, ref_label, segment_dict)
              \o get_data_features_identifying_word(ref_data, index, ref_label)
              \o get_data_features_punctuation(ref_data, index, ref_label)
              \o get_data_features_editor(ref_data, index, ref_label, segment_dict)]

\* the words of a tagged reference whose label is in S, in order
RECURSIVE get_labeled_multi_words(_, _)
get_labeled_multi_words(reference_list, S) ==
    IF reference_list = <<>> THEN <<>>
    ELSE (IF Head(reference_list)[1] \in S THEN <<Head(reference_list)[2]>> ELSE <<>>)
         \o get_labeled_multi_words(Tail(reference_list), S)

merge_authors(reference_list) == get_labeled_multi_words(reference_list, AUTHOR_TAGS)

\* CRFClassifierXML.segment: the dictionary and the words handed to classify
segment_dict_of(reference_list) ==
    [key \in {At(SEGMENT_DICT_KEYS, i) : i \in 0..13} \cup {"authors"} |->
        IF key = "authors" THEN merge_authors(reference_list)
        ELSE get_labeled_multi_words(reference_list, {Upper(key)})]

RECURSIVE ref_words_from(_, _)
ref_words_from(reference_list, i) ==
    IF i > 13 THEN <<>>
    ELSE get_labeled_multi_words(reference_list, {Upper(At(SEGMENT_DICT_KEYS, i))})
         \o ref_words_from(reference_list, i + 1)

ref_words_of(reference_list) ==
    tokenize_identified_multi_words(merge_authors(reference_list))
    \o ref_words_from(reference_list, 0)

\* the arguments format_training_data and classify hand to get_data_features
FeatureCallData(args) ==
    IF args.mode = "training"
    THEN [ref_data  |-> [i \in 1..Len(args.reference_list) |-> args.reference_list[i][2]],
          ref_label |-> [i \in 1..Len(args.reference_list) |-> args.reference_list[i][1]],
          segment_dict |-> <<>>]
    ELSE [ref_data  |-> ref_words_of(args.reference_list),
          ref_label |-> <<>>,
          segment_dict |-> segment_dict_of(args.reference_list)]

call_get_data_features(index) ==
    /\ fn_ret = <<>>
    /\ LET c == FeatureCallData(fn_args)
       IN  /\ index \in 0..(Len(c.ref_data) - 1)
           /\ fn_ret' = <<[index |-> index] @@
                          get_data_features(c.ref_data, index, c.ref_label,
                                            c.segment_dict)>>
    /\ UNCHANGED fn_args

InitFeatures ==
    /\ EvInit /\ CmpIdle /\ CrfIdle
    /\ \E n \in 1..MaxTokens, mode \in {"training", "inference"} :
          \E reference_list \in [1..n -> TaggedTokens] :
              fn_args = [mode |-> mode, reference_list |-> reference_list]
    /\ fn_ret = <<>>

NextFeatures ==
    \E index \in 0..(MaxTokens - 1) :
        call_get_data_features(index) /\ UNCHANGED <<ev_vars, cmp_vars, crf_vars>>

SpecFeatures == InitFeatures /\ [][NextFeatures]_vars

--------------------------------------------------------------------------
(* resolver/authors.py: count_matching_authors and add_author_evidence.   *)
(* A surname is the list of its letters, lower-cased as the code does; a  *)
(* reference author string is the list of its words, surnames and          *)
(* initials; the catalogued authors are a list of surnames.  Scores are    *)
(* counted in hundredths, the precision round(..., 2) leaves.             *)

MaxRefAuthors == 2      \* words in the reference author string
MaxAdsAuthors == 2      \* catalogued authors

\* round(score, 2): scores are kept in units of 1/ScoreScale
ScoreScale == 100

Surnames ==
    { <<"a", "b", "c", "d">>, <<"a", "b", "c", "e">>, <<"a", "b", "c", "f">>,
      <<"w", "x", "y", "z">> }

Initial == <<"j">>

\* current_app.config['MISSING_FIRST_AUTHOR_FACTOR'], in hundredths
FirstAuthorFactors == {50, 150}

\* editdistance.eval(a, b): the Levenshtein distance
RECURSIVE Levenshtein(_, _)
Levenshtein(a, b) ==
    IF a = <<>> THEN Len(b)
    ELSE IF b = <<>> THEN Len(a)
    ELSE IF Head(a) = Head(b) THEN Levenshtein(Tail(a), Tail(b))
    ELSE 1 + Min(Levenshtein(Tail(a), b),
                 Min(Levenshtein(a, Tail(b)), Levenshtein(Tail(a), Tail(b))))

editdistance_eval == [a \in Surnames, b \in Surnames |-> Levenshtein(a, b)]

\* sub in word, for two lists of letters
IsSubstring(sub, word) ==
    \E i \in 1..(Len(word) - Len(sub) + 1) :
        SubSeq(word, i, i + Len(sub) - 1) = sub

\* sub in text, text being a list of words
InWords(sub, text) == \E i \in 1..Len(text) : IsSubstring(sub, text[i])

\* LAST_NAME_PAT.findall: a surname has at least two letters
RECURSIVE get_author_last_name_only(_)
get_author_last_name_only(author_string) ==
    IF author_string = <<>> THEN <<>>
    ELSE (IF Len(Head(author_string)) >= 2 THEN <<Head(author_string)>> ELSE <<>>)
         \o get_author_last_name_only(Tail(author_string))

\* distance > 0.7, with distance = (N_max - editdistance) / N_max
Misspelled(ads_auth, ref_auth) ==
    LET N_max == IF Len(ads_auth) > Len(ref_auth) THEN Len(ads_auth) ELSE Len(ref_auth)
    IN  10 * (N_max - editdistance_eval[ads_auth, ref_auth]) > 7 * N_max

\* index of the first reference surname taken as a misspelling of ads_auth, or 0
FirstMisspelling(ads_auth, ref_authors_lastname) ==
    IF \E i \in 1..Len(ref_authors_lastname) : Misspelled(ads_auth, ref_authors_lastname[i])
    THEN CHOOSE i \in 1..Len(ref_authors_lastname) :
            /\ Misspelled(ads_auth, ref_authors_lastname[i])
            /\ \A h \in 1..(i - 1) : ~Misspelled(ads_auth, ref_authors_lastname[h])
    ELSE 0

\* the loop with a misspelled name counted as missing in the reference too
RECURSIVE count_loop_misspelled_is_missing(_, _, _, _)
count_loop_misspelled_is_missing(ads, ref_authors, ref_authors_lastname, acc) ==
    IF ads = <<>> THEN acc
    ELSE LET ads_auth == Head(ads)
             i == FirstMisspelling(ads_auth, ref_authors_lastname)
         IN  count_loop_misspelled_is_missing(Tail(ads), ref_authors, ref_authors_lastname,
                IF InWords(ads_auth, ref_authors)
                THEN [acc EXCEPT !.matching_authors = @ + 1]
                ELSE IF i # 0
                THEN [acc EXCEPT !.different = Append(@, ref_authors_lastname[i]),
                                 !.credited = Append(@, i),
                                 !.missing_in_ref = @ + 1]
                ELSE [acc EXCEPT !.missing_in_ref = @ + 1])

\* the for loop over ads_authors_lastname; credited[k] is the position in
\* ref_authors_lastname of the k-th entry appended to different
RECURSIVE count_loop(_, _, _, _)
count_loop(ads, ref_authors, ref_authors_lastname, acc) ==
    IF ads = <<>> THEN acc
    ELSE LET ads_auth == Head(ads)
             i == FirstMisspelling(ads_auth, ref_authors_lastname)
         IN  count_loop(Tail(ads), ref_authors, ref_authors_lastname,
                IF InWords(ads_auth, ref_authors)
                THEN [acc EXCEPT !.matching_authors = @ + 1]
                ELSE IF i # 0
                THEN [acc EXCEPT !.different = Append(@, ref_authors_lastname[i]),
                                 !.credited = Append(@, i)]
                ELSE [acc EXCEPT !.missing_in_ref = @ + 1])

\* the words of '; '.join(ref_authors_lastname) left once the catalogued
\* surnames are cut out and the recognised misspellings dropped; surnames
\* here have one length, so a catalogued surname cuts out a whole word or none
RECURSIVE wordsNotInADS(_, _, _)
wordsNotInADS(ref_authors_lastname, ads_authors_lastname, different) ==
    IF ref_authors_lastname = <<>> THEN <<>>
    ELSE LET word == Head(ref_authors_lastname)
         IN  (IF \/ \E i \in 1..Len(ads_authors_lastname) : ads_authors_lastname[i] = word
                 \/ \E i \in 1..Len(different) : different[i] = word
              THEN <<>> ELSE <<word>>)
             \o wordsNotInADS(Tail(ref_authors_lastname), ads_authors_lastname, different)

count_matching_authors(ref_authors, ads_authors, ads_first_author) ==
    IF ads_authors = <<>> THEN [raised |-> "NotImplementedError"]
    ELSE
    LET ads_authors_lastname == ads_authors
        ref_authors_lastname == get_author_last_name_only(ref_authors)
        first == IF ads_first_author = None THEN ads_authors_lastname[1]
                 ELSE ads_first_author[1]
        acc == count_loop(ads_authors_lastname, ref_authors, ref_authors_lastname,
                          [matching_authors |-> 0, missing_in_ref |-> 0,
                           different |-> <<>>, credited |-> <<>>])
    IN  [raised |-> "none",
         missing_in_ref |-> acc.missing_in_ref,
         missing_in_ads |->
            IF ref_authors_lastname # <<>>
            THEN Len(wordsNotInADS(ref_authors_lastname, ads_authors_lastname,
                                   acc.different))
            ELSE 0,
         matching_authors |-> acc.matching_authors,
         first_author_missing |-> ~InWords(first, ref_authors),
         different |-> acc.different,
         credited |-> acc.credited]

\* round(p / q, 2) for q > 0, p and the result in hundredths: the nearest
\* integer, a tie going to the even one
Round(p, q) ==
    LET fl == p \div q
        twice == 2 * (p - fl * q)
    IN  IF twice < q THEN fl
        ELSE IF twice > q THEN fl + 1
        ELSE IF fl % 2 = 0 THEN fl ELSE fl + 1

\* the score of add_author_evidence before it is clamped, in hundredths
author_score(counts, n_ads, has_etal, factor) ==
    LET normalizer == IF has_etal
                      THEN counts.matching_authors + counts.missing_in_ads
                      ELSE n_ads
        matching == IF counts.first_author_missing
                    THEN counts.matching_authors * factor
                    ELSE counts.matching_authors * ScoreScale
    IN  IF normalizer # 0
        THEN Round(matching - counts.missing_in_ads * ScoreScale, normalizer)
        ELSE 0

\* max(EVIDENCE_SCORE_RANGE[0], min(EVIDENCE_SCORE_RANGE[1], score))
clamp_not(s) == s

clamp(s) ==
    LET lo == EVIDENCE_SCORE_MIN * ScoreScale
        hi == EVIDENCE_SCORE_MAX * ScoreScale
    IN  IF s > hi THEN hi ELSE IF s < lo THEN lo ELSE s

\* add_author_evidence(evidences, ref_authors, ads_authors, ads_first_author, has_etal)
add_author_evidence ==
    /\ fn_ret = <<>>
    /\ IF Len(fn_args.ref_authors) = 0 \/ Len(fn_args.ads_authors) = 0
       THEN /\ fn_ret' = <<[fn |-> "add_author_evidence", added |-> FALSE]>>
            /\ UNCHANGED ev_vars
       ELSE LET counts == count_matching_authors(fn_args.ref_authors,
                              fn_args.ads_authors, fn_args.ads_first_author)
                s == author_score(counts, Len(fn_args.ads_authors),
                                  fn_args.has_etal, fn_args.factor)
            IN  /\ add_evidence(clamp(s), "authors")
                /\ fn_ret' = <<[fn |-> "add_author_evidence", added |-> TRUE,
                                normalizer_zero |->
                                    /\ fn_args.has_etal
                                    /\ counts.matching_authors + counts.missing_in_ads = 0,
                                unclamped |-> s]>>
    /\ UNCHANGED fn_args

call_count_matching_authors ==
    /\ fn_ret = <<>>
    /\ fn_ret' = <<[fn |-> "count_matching_authors"] @@
                   count_matching_authors(fn_args.ref_authors, fn_args.ads_authors,
                                          fn_args.ads_first_author)>>
    /\ UNCHANGED <<fn_args, ev_vars>>

\* an Evidences object that already holds what earlier scorers added
InitAuthors ==
    /\ \E n \in 0..1 :
          /\ evidences \in [1..n -> {EVIDENCE_SCORE_MAX * ScoreScale}]
          /\ labels \in [1..n -> {"year"}]
    /\ score = None
    /\ min_score = EVIDENCE_SCORE_MIN * ScoreScale
    /\ max_score = EVIDENCE_SCORE_MAX * ScoreScale
    /\ exc = "none"
    /\ CmpIdle /\ CrfIdle
    /\ \E ref_authors \in SeqsUpTo(Surnames \cup {Initial}, MaxRefAuthors),
          ads_authors \in SeqsUpTo(Surnames, MaxAdsAuthors),
          ads_first_author \in {None, << <<"a", "b", "c", "d">> >>},
          has_etal \in BOOLEAN, factor \in FirstAuthorFactors :
          fn_args = [ref_authors |-> ref_authors, ads_authors |-> ads_authors,
                     ads_first_author |-> ads_first_author,
                     has_etal |-> has_etal, factor |-> factor]
    /\ fn_ret = <<>>

NextAuthors ==
    \/ add_author_evidence /\ UNCHANGED <<cmp_vars, crf_vars>>
    \/ call_count_matching_authors /\ UNCHANGED <<cmp_vars, crf_vars>>

SpecAuthors == InitAuthors /\ [][NextAuthors]_vars

--------------------------------------------------------------------------
(* parser/crf.py: reference(), the parsed record built from words and     *)
(* labels.  The record is a python dict; the authors value is kept as the *)
(* list of the pieces that ''.join glues together.                        *)

MaxWords == 3       \* tagged words handed to reference()

LabelledWords ==
    { <<"AUTHOR_LAST_NAME", "Smith">>, <<"AUTHOR_FIRST_NAME", "J">>,
      <<"PUNCTUATION_COMMA", ",">>, <<"YEAR", "2010">>, <<"VOLUME", "35">>,
      <<"VOLUME", "vol">>, <<"PAGE", "L12">>, <<"ISSUE", "2">>,
      <<"DOI", "10.1234/x">>, <<"DOI", "arXiv:1234.5678">>,
      <<"ARXIV", "ascl:1234.567">>, <<"ISSN", "1234-5678">>,
      <<"JOURNAL", "Icarus">>, <<"TITLE", "Stars">> }

isdigit(w) == w \in {"2010", "35", "2"}

\* the identifier each extractor finds in a word of the vocabulary, '' if none
DOI_ID_EXTRACTOR(w) == IF w = "10.1234/x" THEN "10.1234/x" ELSE ""

ARXIV_ID_EXTRACTOR(w) == IF w = "arXiv:1234.5678" THEN "arXiv:1234.5678" ELSE ""

ASCL_ID_EXTRACTOR(w) == IF w = "ascl:1234.567" THEN "ascl:1234.567" ELSE ""

\* words[ref_labels.index(label)]
WordAtLabel(words, ref_labels, label) == At(words, FirstIdx(ref_labels, {label}))

\* returns <<identifier_tag, identifier>>
identifier_arxiv_or_ascl(words, ref_labels) ==
    LET arXiv == ARXIV_ID_EXTRACTOR(WordAtLabel(words, ref_labels, "ARXIV"))
        ascl == ASCL_ID_EXTRACTOR(WordAtLabel(words, ref_labels,
                    IF HasIn(ref_labels, {"ASCL"}) THEN "ASCL" ELSE "ARXIV"))
    IN  IF HasIn(ref_labels, {"ARXIV"}) /\ arXiv # "" THEN <<"arxiv", arXiv>>
        ELSE IF HasIn(ref_labels, {"ASCL", "ARXIV"}) /\ ascl # "" THEN <<"ascl", ascl>>
        ELSE <<"", "">>

tagged_doi_but_arxiv_or_ascl(words, ref_labels) ==
    LET arXiv == ARXIV_ID_EXTRACTOR(WordAtLabel(words, ref_labels, "DOI"))
        ascl == ASCL_ID_EXTRACTOR(WordAtLabel(words, ref_labels, "DOI"))
    IN  IF HasIn(ref_labels, {"DOI"}) /\ arXiv # "" THEN <<"arxiv", arXiv>>
        ELSE IF HasIn(ref_labels, {"DOI"}) /\ ascl # "" THEN <<"ascl", ascl>>
        ELSE <<"", "">>

\* the first loop of reference(): the author name pieces of the leading words
RECURSIVE author_name_loop(_, _, _, _)
author_name_loop(words, ref_labels, i, name) ==
    IF i >= Len(words) THEN name
    ELSE LET w == At(words, i)
             l == At(ref_labels, i)
             glue ==
                IF (l \in AuthorPrefixed \/ l \in {"AND", "&", "ET_AL"}) /\ Len(name) > 0
                THEN IF HasIn(ref_labels, {"PUNCTUATION_COMMA"})
                        /\ At(ref_labels, i - 1) # "PUNCTUATION_HYPEN"
                     THEN <<" ">>
                     ELSE IF At(ref_labels, i - 1) = "AUTHOR_LAST_NAME" THEN <<", ">>
                     ELSE IF /\ At(ref_labels, i - 1) \in {"AUTHOR_FIRST_NAME",
                                    "AUTHOR_FIRST_NAME_FULL", "AUTHOR_MIDDLE_NAME"}
                             /\ At(words, i - 1) \in {"J"}
                          THEN <<". ">>
                     ELSE <<>>
                ELSE <<>>
         IN  IF l \in AUTHOR_TAGS
             THEN author_name_loop(words, ref_labels, i + 1, name \o glue \o <<w>>)
             ELSE IF Len(name) > 0 /\ name[Len(name)] = ","
                  THEN SubSeq(name, 1, Len(name) - 1)
                  ELSE name

\* ref_dict[key] = value when cond holds
SetIf(d, cond, key, value) == IF cond THEN DictSet(d, key, value) ELSE d

\* the volume: the only word labelled VOLUME, else the first that is all digits
VolumeOf(words, ref_labels) ==
    LET idx == {i \in 0..(Len(ref_labels) - 1) : At(ref_labels, i) = "VOLUME"}
        digits == {i \in idx : isdigit(At(words, i))}
    IN  IF Cardinality(idx) = 1 THEN <<At(words, CHOOSE i \in idx : TRUE)>>
        ELSE IF digits # {}
             THEN <<At(words, CHOOSE i \in digits : \A j \in digits : i <= j)>>
        ELSE <<>>

reference(refstr, words, ref_labels) ==
    LET d0 == DictSet(<<>>, "authors", author_name_loop(words, ref_labels, 0, <<>>))
        d1 == SetIf(d0, HasIn(ref_labels, {"YEAR"}), "year",
                    WordAtLabel(words, ref_labels, "YEAR"))
        d2 == SetIf(d1, HasIn(ref_labels, {"VOLUME"}) /\ VolumeOf(words, ref_labels) # <<>>,
                    "volume", VolumeOf(words, ref_labels)[1])
        d3 == SetIf(d2, HasIn(ref_labels, {"PAGE"}), "page",
                    WordAtLabel(words, ref_labels, "PAGE"))
        d4 == SetIf(d3, HasIn(ref_labels, {"ISSUE"}), "issue",
                    WordAtLabel(words, ref_labels, "ISSUE"))
        doi == DOI_ID_EXTRACTOR(WordAtLabel(words, ref_labels, "DOI"))
        mis == tagged_doi_but_arxiv_or_ascl(words, ref_labels)
        d5 == IF ~HasIn(ref_labels, {"DOI"}) THEN d4
              ELSE IF doi # "" THEN DictSet(d4, "doi", doi)
              ELSE SetIf(d4, mis[2] # "", mis[1], mis[2])
        id == identifier_arxiv_or_ascl(words, ref_labels)
        d6 == SetIf(d5, HasIn(ref_labels, {"ARXIV", "ASCL"}) /\ id[2] # "", id[1], id[2])
        d7 == SetIf(d6, HasIn(ref_labels, {"ISSN"}), "ISSN",
                    WordAtLabel(words, ref_labels, "ISSN"))
        d8 == SetIf(d7, HasIn(ref_labels, {"JOURNAL"}), "journal",
                    get_labeled_multi_words(
                        [i \in 1..Len(words) |-> <<ref_labels[i], words[i]>>], {"JOURNAL"}))
        d9 == SetIf(d8, HasIn(ref_labels, {"TITLE"}), "title",
                    get_labeled_multi_words(
                        [i \in 1..Len(words) |-> <<ref_labels[i], words[i]>>],
                        {"TITLE", "BOOK_TITLE"}))
    IN  DictSet(d9, "refstr", refstr)

call_reference ==
    /\ fn_ret = <<>>
    /\ fn_ret' = <<reference("refstr",
                       [i \in 1..Len(fn_args) |-> fn_args[i][2]],
                       [i \in 1..Len(fn_args) |-> fn_args[i][1]])>>
    /\ UNCHANGED fn_args

InitReference ==
    /\ EvInit /\ CmpIdle /\ CrfIdle
    /\ \E n \in 1..MaxWords : fn_args \in [1..n -> LabelledWords]
    /\ fn_ret = <<>>

NextReference == call_reference /\ UNCHANGED <<ev_vars, cmp_vars, crf_vars>>

SpecReference == InitReference /\ [][NextReference]_vars

--------------------------------------------------------------------------
(* parser/crf.py: CRFClassifierText.extract_doi.  A string is the list of *)
(* its characters.                                                        *)

Chars(S) == {<<c>> : c \in S}

Letters ==
    {"a", "b", "c", "d", "h", "i", "l", "o", "p", "r", "s", "t", "v", "x",
     "D", "I", "O", "X"}

Digits == {"0", "1", "2", "3", "4", "5", "6", "7", "8", "9"}

IsSpace(c) == c = " "

IsWordChar(c) == c \in Letters \cup Digits \cup {"_"}

\* [\d\:\.\-\_\/\(\)A-Za-z\s]
DoiBodyChar(c) ==
    c \in Digits \cup Letters \cup {":", ".", "-", "_", "/", "(", ")"} \/ IsSpace(c)

\* s[i:], counted from 1
From(s, i) == SubSeq(s, i, Len(s))

StartsWith(s, sub) == Len(s) >= Len(sub) /\ SubSeq(s, 1, Len(sub)) = sub

EndsWith(s, sub) ==
    Len(s) >= Len(sub) /\ SubSeq(s, Len(s) - Len(sub) + 1, Len(s)) = sub

\* s.find(sub) + 1: where sub first starts in s, 0 when it does not occur
Find(s, sub) ==
    IF \E i \in 1..(Len(s) - Len(sub) + 1) : StartsWith(From(s, i), sub)
    THEN CHOOSE i \in 1..(Len(s) - Len(sub) + 1) :
            /\ StartsWith(From(s, i), sub)
            /\ \A h \in 1..(i - 1) : ~StartsWith(From(s, h), sub)
    ELSE 0

\* s.split(sep, 1)[0]
SplitHead(s, sep) ==
    IF Find(s, sep) = 0 THEN s ELSE SubSeq(s, 1, Find(s, sep) - 1)

\* length of the longest run of characters satisfying P at the start of s
Run(s, P(_)) ==
    CHOOSE n \in 0..Len(s) :
        /\ \A h \in 1..n : P(s[h])
        /\ n = Len(s) \/ ~P(s[n + 1])

DOI_TEN == <<"1", "0", ".">>

DOI_LOWER == <<"d", "o", "i">>

DOI_UPPER == <<"D", "O", "I">>

HTTPS == <<"h", "t", "t", "p", "s", ":", "/", "/">>

HTTP == <<"h", "t", "t", "p", ":", "/", "/">>

ARXIV_MARK == <<"a", "r", "X", "i", "v", ":">>

ASCL_MARK == <<"a", "s", "c", "l", ":">>

\* b10\.\s*\d{4}[...]+ tried at position j of s: the position after the
\* match, 0 when it fails there
DoiCoreEnd(s, j) ==
    LET lit == From(s, j)
        sp == Run(From(s, j + 3), IsSpace)
        k == j + 3 + sp
        body == Run(From(s, k + 4), DoiBodyChar)
    IN  IF /\ j = 1 \/ ~IsWordChar(s[j - 1])
           /\ StartsWith(lit, DOI_TEN)
           /\ Len(s) >= k + 3
           /\ \A h \in k..(k + 3) : s[h] \in Digits
           /\ body >= 1
        THEN k + 4 + body
        ELSE 0

\* DOI_ID_EXTRACTOR tried at position i: (doi|DOI)? then up to two of
\* [\s\.\:], longest first, then the core
DoiMatchEnd(s, i) ==
    LET word == IF StartsWith(From(s, i), DOI_LOWER) \/ StartsWith(From(s, i), DOI_UPPER)
                THEN <<3, 0>> ELSE <<0>>
        Sep(c) == IsSpace(c) \/ c \in {".", ":"}
        tries == {<<w, n>> \in {0, 3} \X {0, 1, 2} :
                    /\ \E x \in 1..Len(word) : word[x] = w
                    /\ Len(s) >= i + w + n - 1
                    /\ \A h \in (i + w)..(i + w + n - 1) : Sep(s[h])
                    /\ DoiCoreEnd(s, i + w + n) # 0}
        best == CHOOSE t \in tries :
                    \A u \in tries : t[1] > u[1] \/ (t[1] = u[1] /\ t[2] >= u[2])
    IN  IF tries = {} THEN 0 ELSE DoiCoreEnd(s, i + best[1] + best[2])

\* the first match of DOI_ID_EXTRACTOR.finditer, <<>> when there is none
DoiFirstMatch(s) ==
    IF \E i \in 1..Len(s) : DoiMatchEnd(s, i) # 0
    THEN LET i == CHOOSE i \in 1..Len(s) :
                     DoiMatchEnd(s, i) # 0 /\ \A h \in 1..(i - 1) : DoiMatchEnd(s, h) = 0
         IN  <<SubSeq(s, i, DoiMatchEnd(s, i) - 1)>>
    ELSE <<>>

\* filter(None, DOI_INDICATOR.split(doi))[0]: the first non-empty piece
\* between the 'doi:' markers, whatever their case
IndicatorAt(s) ==
    \E a \in {DOI_LOWER, DOI_UPPER} : StartsWith(s, a \o <<":">>)

RECURSIVE FirstPiece(_, _)
FirstPiece(s, piece) ==
    IF s = <<>> THEN piece
    ELSE IF IndicatorAt(s)
         THEN IF piece # <<>> THEN piece ELSE FirstPiece(From(s, 5), <<>>)
    ELSE FirstPiece(Tail(s), Append(piece, Head(s)))

extract_doi(reference_str) ==
    LET match == DoiFirstMatch(reference_str)
        cut == SplitHead(SplitHead(SplitHead(SplitHead(match[1], HTTPS), HTTP),
                                   ARXIV_MARK), ASCL_MARK)
        doi == IF EndsWith(cut, <<".">>) THEN SubSeq(cut, 1, Len(cut) - 1) ELSE cut
    IN  IF match = <<>> THEN <<>> ELSE FirstPiece(doi, <<>>)

\* the pieces the reference strings are put together from
DoiPrefixes == {<<>>, <<"d", "o", "i", ":">>, <<"D", "O", "I", ":">>, <<"d", "o", "i", ":", " ">>}

DoiTexts == {<<"1", "0", ".", "3", "8", "4", "7", "/", "a", "a", "7">>, <<"1", "0", ".", "1", "2", "3", "4", "/", "b", "-", "2">>}

DoiEndings == {<<>>, <<".">>, <<" ">>, <<".", " ">>}

DoiFollowers == {<<>>,
                 <<"h", "t", "t", "p", ":", "/", "/", "a", "r", "x", "i", "v", ".", "o", "r", "g">>,
                 <<"h", "t", "t", "p", "s", ":", "/", "/", "d", "o", "i", ".", "o", "r", "g">>,
                 <<"a", "r", "X", "i", "v", ":", "1", "7", "0", "3", ".", "0", "0", "9", "6", "5">>,
                 <<"a", "s", "c", "l", ":", "1", "7", "0", "3", ".", "0", "0", "9">>,
                 <<"d", "o", "i", ":", "1", "0", ".", "1", "2", "3", "4", "/", "x">>}

call_extract_doi ==
    /\ fn_ret = <<>>
    /\ fn_ret' = <<extract_doi(fn_args.prefix \o fn_args.doi \o fn_args.ending
                               \o fn_args.follower)>>
    /\ UNCHANGED fn_args

InitDoi ==
    /\ EvInit /\ CmpIdle /\ CrfIdle
    /\ fn_args \in [prefix : DoiPrefixes, doi : DoiTexts, ending : DoiEndings,
                    follower : DoiFollowers]
    /\ fn_ret = <<>>

NextDoi == call_extract_doi /\ UNCHANGED <<ev_vars, cmp_vars, crf_vars>>

SpecDoi == InitDoi /\ [][NextDoi]_vars

--------------------------------------------------------------------------
(* parser/crf.py: CRFClassifierText.identify_numeric_tokens.  What the    *)
(* regular expressions find in the reference string is the input: the     *)
(* year candidates of YEAR_EXTRACTOR in order, each with its letter       *)
(* suffix if any and whether it stands in parentheses, the fields the     *)
(* formatted, page and volume extractors set, and the mostly-digit tokens *)
(* left in the string.  unknown is kept as a list of words.               *)

MaxYears == 2       \* year candidates in one reference string
MaxRest == 4        \* mostly-digit tokens left in one reference string

\* self.year_now on the day of the run, and self.year_earliest
year_now == 2026
year_earliest == 1400

\* YEAR_PATTERN [12][089]\d\d admits years on both sides of the range
YearNumbers == {1050, 1999, 2099}

YearOccurrences ==
    [num : YearNumbers, suffix : {"", "a"}, paren : BOOLEAN]

MostlyDigitTokens == {"12", "345", "7", "L12", "5a"}

IsDigitToken(elem) == elem \in {"12", "345", "7"}

\* volume, page, issue as the extractors leave them: both formatted
\* patterns, none, the page pattern alone, the volume pattern alone, both
ExtractorOutcomes ==
    { [volume |-> "40", page |-> "101", issue |-> "2"],
      [volume |-> "40", page |-> "101", issue |-> ""],
      [volume |-> "", page |-> "", issue |-> ""],
      [volume |-> "", page |-> "101-110", issue |-> ""],
      [volume |-> "40", page |-> "", issue |-> ""],
      [volume |-> "40", page |-> "101-110", issue |-> ""] }

\* list(OrderedDict.fromkeys(YEAR_EXTRACTOR.findall(reference_str)))
RECURSIVE YearCandidates(_, _)
YearCandidates(occurrences, seen) ==
    IF occurrences = <<>> THEN seen
    ELSE LET y == [num |-> Head(occurrences).num, suffix |-> Head(occurrences).suffix]
         IN  YearCandidates(Tail(occurrences),
                IF \E i \in 1..Len(seen) : seen[i] = y THEN seen ELSE Append(seen, y))

\* re.search(MATCH_INSIDE_PARENTHESIS % y, reference_str)
InsideParenthesis(y, occurrences) ==
    \E i \in 1..Len(occurrences) :
        /\ occurrences[i].paren
        /\ occurrences[i].num = y.num /\ occurrences[i].suffix = y.suffix

\* y.isnumeric() and year_earliest <= int(y) <= year_now
YearAcceptable(y) == y.suffix = "" /\ y.num >= year_earliest /\ y.num <= year_now

\* the year part: a single year comes back as itself, anything else as a list
identify_year(occurrences) ==
    LET found == YearCandidates(occurrences, <<>>)
        inpar == {i \in 1..Len(found) : InsideParenthesis(found[i], occurrences)}
        picked == IF Len(found) > 1 /\ inpar # {}
                  THEN <<found[CHOOSE i \in inpar : \A j \in inpar : i <= j]>>
                  ELSE found
        year == IF Len(picked) > 1 THEN SelectSeq(picked, YearAcceptable) ELSE picked
    IN  IF Len(year) = 1 THEN [single |-> TRUE, value |-> <<year[1]>>]
        ELSE [single |-> FALSE, value |-> year]

\* the_rest from its first all-digit element on; <<>> when it has none
FirstDigitIdx(the_rest) ==
    CHOOSE i \in 1..Len(the_rest) :
        IsDigitToken(the_rest[i]) /\ \A h \in 1..(i - 1) : ~IsDigitToken(the_rest[h])

the_rest_numeric(the_rest) ==
    IF \E i \in 1..Len(the_rest) : IsDigitToken(the_rest[i])
    THEN SubSeq(the_rest, FirstDigitIdx(the_rest), Len(the_rest))
    ELSE <<>>

\* one element left, tried on page before volume
one_leftover_page_first(f, elem) ==
    IF f.page = "" THEN [f EXCEPT !.page = elem]
    ELSE IF f.volume = "" THEN [f EXCEPT !.volume = elem]
    ELSE [f EXCEPT !.issue = elem]

\* one element left: volume if not set, else page if not set, else issue
one_leftover(f, elem) ==
    IF f.volume = "" THEN [f EXCEPT !.volume = elem]
    ELSE IF f.page = "" THEN [f EXCEPT !.page = elem]
    ELSE [f EXCEPT !.issue = elem]

\* guesses that give two elements to volume and page whatever is known
positional_inference_overwrites(f, the_rest) ==
    IF Len(the_rest) = 3 /\ f.volume = "" /\ f.issue = "" /\ f.page = ""
    THEN [f EXCEPT !.volume = the_rest[1], !.issue = the_rest[2], !.page = the_rest[3]]
    ELSE IF Len(the_rest) = 2 /\ (f.volume = "" \/ f.page = "")
    THEN [f EXCEPT !.volume = the_rest[1], !.page = the_rest[2]]
    ELSE IF Len(the_rest) = 1 THEN one_leftover(f, the_rest[1])
    ELSE [f EXCEPT !.unknown = @ \o the_rest]

\* the guesses made from at most three elements of the_rest
positional_inference(f, the_rest) ==
    IF Len(the_rest) = 3 /\ f.volume = "" /\ f.issue = "" /\ f.page = ""
    THEN [f EXCEPT !.volume = the_rest[1], !.issue = the_rest[2], !.page = the_rest[3]]
    ELSE IF Len(the_rest) = 2 /\ (f.volume = "" \/ f.page = "")
    THEN IF f.volume = ""
         THEN IF f.page = ""
              THEN [f EXCEPT !.volume = the_rest[1], !.page = the_rest[2]]
              ELSE [f EXCEPT !.volume = the_rest[1], !.issue = the_rest[2]]
         ELSE IF f.page = ""
         THEN [f EXCEPT !.page = the_rest[2], !.issue = the_rest[1]]
         ELSE [f EXCEPT !.unknown = @ \o the_rest]
    ELSE IF Len(the_rest) = 1 THEN one_leftover(f, the_rest[1])
    ELSE [f EXCEPT !.unknown = @ \o the_rest]

\* what identify_numeric_tokens returns; rest is the list the guesses were
\* made from, kept beside the returned fields
identify_numeric_tokens(args) ==
    LET f0 == [volume |-> args.extracted.volume, page |-> args.extracted.page,
               issue |-> args.extracted.issue, unknown |-> args.unknown,
               year |-> identify_year(args.years), rest |-> <<>>]
        f1 == [f0 EXCEPT !.unknown = @ \o args.other_words]
        trimmed == the_rest_numeric(args.the_rest)
        \* the words thrown out before the first all-digit element
        f2 == IF f1.volume = ""
              THEN [f1 EXCEPT !.unknown =
                        @ \o SubSeq(args.the_rest, 1, Len(args.the_rest) - Len(trimmed))]
              ELSE f1
        the_rest == IF f1.volume = "" THEN trimmed ELSE args.the_rest
        f3 == [f2 EXCEPT !.rest = the_rest]
    IN  IF f0.volume = "" \/ f0.page = "" \/ f0.issue = ""
        THEN IF Len(args.the_rest) > 0
             THEN IF Len(the_rest) <= 3 THEN positional_inference(f3, the_rest)
                  ELSE f3
             ELSE f1
        ELSE f0

call_identify_numeric_tokens ==
    /\ fn_ret = <<>>
    /\ fn_ret' = <<identify_numeric_tokens(fn_args)>>
    /\ UNCHANGED fn_args

\* lists without repetition, as OrderedDict.fromkeys leaves them
DistinctSeqs(S, n) ==
    {s \in SeqsUpTo(S, n) : \A i, j \in 1..Len(s) : i # j => s[i] # s[j]}

InitNumeric ==
    /\ EvInit /\ CmpIdle /\ CrfIdle
    /\ \E years \in SeqsUpTo(YearOccurrences, MaxYears),
          the_rest \in DistinctSeqs(MostlyDigitTokens, MaxRest),
          extracted \in ExtractorOutcomes,
          other_words \in {<<>>, <<"Icarus">>} :
          /\ years = <<>> \/ (the_rest = <<>> /\ other_words = <<>>)
          /\ fn_args = [years |-> years, the_rest |-> the_rest,
                        extracted |-> extracted, other_words |-> other_words,
                        unknown |-> <<"ApJ">>]
    /\ fn_ret = <<>>

NextNumeric == call_identify_numeric_tokens /\ UNCHANGED <<ev_vars, cmp_vars, crf_vars>>

SpecNumeric == InitNumeric /\ [][NextNumeric]_vars

--------------------------------------------------------------------------
(* resolver/authors.py : get_author_pattern, get_authors                 *)
(* The regular expressions are not evaluated on characters: what each    *)
(* search returned (a length, a position, a group) is an input of the    *)
(* call, and the functions are modelled from those results onwards.      *)

\* largest number of leading characters one shape is matched on
MaxMatched == 2

\* patterns = [TRAILING_INIT_PAT, LEADING_INIT_PAT, TRAILING_FULL_PAT,
\* LEADING_FULL_PAT]; a pattern object is <<name>>, None is <<>>
TRAILING_INIT_PAT == <<"TRAILING_INIT_PAT">>
LEADING_INIT_PAT == <<"LEADING_INIT_PAT">>
TRAILING_FULL_PAT == <<"TRAILING_FULL_PAT">>
LEADING_FULL_PAT == <<"LEADING_FULL_PAT">>
author_patterns ==
    <<TRAILING_INIT_PAT, LEADING_INIT_PAT, TRAILING_FULL_PAT, LEADING_FULL_PAT>>

\* min(...) and max(...) of a non-empty collection of numbers
MinOf(S) == CHOOSE x \in S : \A y \in S : x <= y
MaxOf(S) == CHOOSE x \in S : \A y \in S : x >= y

\* [index for index, value in enumerate(lengths) if value == max(lengths)]
indices_max_of(lens) ==
    {i \in 0..3 : At(lens, i) = MaxOf({At(lens, j) : j \in 0..3})}

\* the same list taken with value >= 0
indices_match_of_nonneg(lens) == {i \in 0..3 : At(lens, i) >= 0}

\* [index for index, value in enumerate(lengths) if value > 0]
indices_match_of(lens) == {i \in 0..3 : At(lens, i) > 0}

\* int(''.join(['1' if i in indices_max else '0' for i in range(4)]), 2)
on_off_value_of(imax) ==
    (IF 0 \in imax THEN 8 ELSE 0) + (IF 1 \in imax THEN 4 ELSE 0)
    + (IF 2 \in imax THEN 2 ELSE 0) + (IF 3 \in imax THEN 1 ELSE 0)

\* a table that sends 0011 to the third pattern
on_off_table_third(on_off_value, imax) ==
    IF on_off_value \in {0, 6, 9, 12, 15} THEN None
    ELSE IF on_off_value = 3 THEN At(author_patterns, 2)
    ELSE IF on_off_value \in {5, 7} THEN At(author_patterns, 1)
    ELSE IF on_off_value \in {10, 11} THEN At(author_patterns, 0)
    ELSE IF on_off_value = 13 THEN At(author_patterns, 3)
    ELSE IF on_off_value = 14 THEN At(author_patterns, 2)
    ELSE At(author_patterns, MinOf(imax))

\* the chain of tests on on_off_value; a value in none of them falls
\* through to the function's last line, patterns[indices_max[0]]
on_off_table(on_off_value, imax) ==
    IF on_off_value \in {0, 6, 9, 12, 15} THEN None
    ELSE IF on_off_value = 3 THEN At(author_patterns, 3)
    ELSE IF on_off_value \in {5, 7} THEN At(author_patterns, 1)
    ELSE IF on_off_value \in {10, 11} THEN At(author_patterns, 0)
    ELSE IF on_off_value = 13 THEN At(author_patterns, 3)
    ELSE IF on_off_value = 14 THEN At(author_patterns, 2)
    ELSE At(author_patterns, MinOf(imax))

\* where in ref_string the four shapes are counted from: ref_string is cut
\* at collaborators_len when collaborators_idx != 0, and taken whole otherwise
count_start(collaborators) ==
    IF collaborators[1] # 0 THEN collaborators[2] ELSE 0

\* get_author_pattern, from the four lengths onwards
get_author_pattern(lens) ==
    LET imax == indices_max_of(lens)
        imatch == indices_match_of(lens)
    IN  IF Cardinality(imax) # 1
        THEN IF Cardinality(imatch) - Cardinality(imax) = 1
             THEN At(author_patterns, MinOf(imatch))
             ELSE on_off_table(on_off_value_of(imax), imax)
        ELSE At(author_patterns, MinOf(imax))

\* the local author_pattern before any assignment to it
Unbound == <<"unbound">>

\* the three ways a call of get_authors ends
Returned(n) == [outcome |-> "authors", authors_len |-> n]
RaisedUndecidable == [outcome |-> "Undecidable", authors_len |-> 0]
RaisedUnboundLocalError == [outcome |-> "UnboundLocalError", authors_len |-> 0]

\* get_authors_last_attempt's result: None or a non-empty span, here its length
LastAttempts == {0, 5}

\* get_and_colleagues and get_collaborators return (index, length); (0, 0)
\* when nothing is found
AndColleagues == {<<0, 0>>, <<9, 16>>}
Collaborators == {<<0, 0>>, <<0, 20>>, <<9, 20>>}

\* len(match.group().strip()) of ETAL_HOOK, 0 for no match; the match holds
\* at least "et al"
EtAlLens == {0, 5, 12}

\* what get_authors_recursive counted
RecursiveLens == {0, 2, 12}

\* CROP_IF_NEEDED.search(ref_string[:authors_len]): no match, or the one
\* group of 4, 2, 8 that took part, with the length of its text
Crops == {<<0, 0>>, <<4, 7>>, <<2, 6>>, <<8, 3>>, <<8, 0>>}

\* the pruning of a leading-shape span
crop_if_needed(authors_len, crop) ==
    IF crop[1] # 0 /\ crop[2] > 0 THEN crop[2] ELSE authors_len

\* the else-branch of get_authors once author_pattern and authors_len are known
get_authors_tail(author_pattern, authors_len, last_attempt, crop) ==
    IF authors_len < 3
    THEN IF last_attempt = 0 THEN RaisedUndecidable ELSE Returned(last_attempt)
    ELSE IF author_pattern = Unbound THEN RaisedUnboundLocalError
    ELSE IF author_pattern \in {LEADING_INIT_PAT, LEADING_FULL_PAT}
         THEN Returned(crop_if_needed(authors_len, crop))
    ELSE Returned(authors_len)

\* get_authors; the returned span is ref_string[:authors_len], trimmed
get_authors(a) ==
    IF a.and_colleagues[2] > 0
    THEN Returned(a.and_colleagues[1] + a.and_colleagues[2])
    ELSE IF a.collaborators[1] > 0
    THEN Returned(a.collaborators[1] + a.collaborators[2])
    ELSE IF a.etal_len > 0
    THEN get_authors_tail(Unbound, a.etal_len, a.last_attempt, a.crop)
    ELSE LET author_pattern == get_author_pattern(a.lengths)
         IN  IF author_pattern # None
             THEN get_authors_tail(author_pattern, a.recursive_len,
                                   a.last_attempt, a.crop)
             ELSE get_authors_tail(author_pattern, a.collaborators[2],
                                   a.last_attempt, a.crop)

call_get_author_pattern ==
    /\ fn_args # <<>>
    /\ fn_ret = <<>>
    /\ fn_ret' = <<[fn |-> "get_author_pattern",
                    start |-> count_start(fn_args[1].collaborators),
                    pattern |-> get_author_pattern(fn_args[1].lengths)]>>
    /\ UNCHANGED <<ev_vars, cmp_vars, crf_vars, fn_args>>

call_get_authors ==
    /\ fn_args # <<>>
    /\ fn_ret = <<>>
    /\ fn_ret' = <<[fn |-> "get_authors", result |-> get_authors(fn_args[1])]>>
    /\ UNCHANGED <<ev_vars, cmp_vars, crf_vars, fn_args>>

InitGetAuthors ==
    /\ EvInit /\ CmpIdle /\ CrfIdle
    /\ fn_ret = <<>>
    /\ \E lens \in [1..4 -> 0..MaxMatched],
          ac \in AndColleagues, co \in Collaborators, el \in EtAlLens,
          rl \in RecursiveLens, la \in LastAttempts, cr \in Crops :
         fn_args = <<[lengths |-> lens, and_colleagues |-> ac,
                      collaborators |-> co, etal_len |-> el,
                      recursive_len |-> rl, last_attempt |-> la,
                      crop |-> cr]>>

NextGetAuthors == call_get_author_pattern \/ call_get_authors

SpecGetAuthors == InitGetAuthors /\ [][NextGetAuthors]_vars

--------------------------------------------------------------------------
(* One insertion into an Evidences object, with the object as it was     *)
(* before the call and the right-hand operand as it is after the call    *)
(* kept beside it                                                        *)

\* self as the caller sees it before a call
SelfBefore == [evidences |-> evidences, labels |-> labels, score |-> score]

\* ev.add_evidence(e, l)
insert_add_evidence(e, l) ==
    /\ fn_ret = <<>>
    /\ add_evidence(e, l)
    /\ fn_args' = <<[call |-> "add_evidence", before |-> SelfBefore,
                     other_is_self |-> FALSE, other |-> <<>>]>>
    /\ fn_ret' = <<[other |-> <<>>]>>
    /\ UNCHANGED <<cmp_vars, crf_vars>>

\* ev + other, other another object: __add__ only reads other.evidences
\* and other.labels
insert_add(other) ==
    /\ fn_ret = <<>>
    /\ add(other)
    /\ fn_args' = <<[call |-> "add", before |-> SelfBefore,
                     other_is_self |-> FALSE, other |-> other]>>
    /\ fn_ret' = <<[other |-> other]>>
    /\ UNCHANGED <<cmp_vars, crf_vars>>

\* ev + ev: other.evidences and other.labels are self's own lists, so the
\* operand after the call is self after the call
insert_add_self ==
    /\ fn_ret = <<>>
    /\ add([evidences |-> evidences, labels |-> labels])
    /\ fn_args' = <<[call |-> "add", before |-> SelfBefore,
                     other_is_self |-> TRUE,
                     other |-> [evidences |-> evidences, labels |-> labels]]>>
    /\ fn_ret' = <<[other |-> [evidences |-> evidences', labels |-> labels']]>>
    /\ UNCHANGED <<cmp_vars, crf_vars>>

\* an Evidences of at most CmpLen scores as add_evidence leaves it, its
\* score cached or not
InitInsert ==
    /\ \E n \in 0..CmpLen :
          /\ evidences \in [1..n -> EVIDENCE_SCORE_MIN..EVIDENCE_SCORE_MAX]
          /\ labels \in [1..n -> {"authors", "year"}]
    /\ score \in {None, <<SeqSum(evidences)>>}
    /\ evidences = <<>> => score = None
    /\ min_score = EVIDENCE_SCORE_MIN
    /\ max_score = EVIDENCE_SCORE_MAX
    /\ exc = "none"
    /\ CmpIdle
    /\ CrfIdle
    /\ FnIdle

NextInsert ==
    \/ \E e \in Scores, l \in Labels : insert_add_evidence(e, l)
    \/ \E n \in 0..MaxOther : \E other \in OtherEvidences(n, Scores) : insert_add(other)
    \/ insert_add_self

SpecInsert == InitInsert /\ [][NextInsert]_vars

--------------------------------------------------------------------------
(* parser/crf.py : CRFClassifierText.segment, from the month name         *)
(* onwards.  Text is a list of words; what the regular expressions        *)
(* matched in the reference string is the input of the call.              *)

\* concatenate(token_1, token_2): joined with a space, token_1 alone when
\* token_2 is empty
concatenate(token_1, token_2) == token_1 \o token_2

\* crop_title: parts is TITLE_TOKENIZER.split(title), separators included
crop_title(parts, unknown_text) ==
    IF Len(parts) > 1
    THEN [title |-> parts[1],
          unknown |-> concatenate(unknown_text, Flatten(Tail(parts)))]
    ELSE [title |-> Flatten(parts), unknown |-> unknown_text]

\* what the extractors of identify_multi_word_entity can find: a title
\* (as its parts) with a journal, a journal alone with text it could not
\* place, noun phrases whose first is a single word, or nothing
MultiWordMatches ==
    { [kind |-> "title_journal", parts |-> << <<"Dusty", "stars">> >>,
       journal |-> <<"Icarus">>, unplaced |-> <<>>],
      [kind |-> "title_journal",
       parts |-> << <<"Dusty", "stars">>, <<":">>, <<"a", "survey">> >>,
       journal |-> <<"Icarus">>, unplaced |-> <<>>],
      [kind |-> "journal_only", parts |-> <<>>,
       journal |-> <<"Icarus">>, unplaced |-> <<"Proc">>],
      [kind |-> "noun_phrases", parts |-> << <<"Stars">> >>,
       journal |-> <<"Icarus">>, unplaced |-> <<>>],
      [kind |-> "none", parts |-> <<>>, journal |-> <<>>, unplaced |-> <<>>] }

\* identify_multi_word_entity(reference_str, unknown), from the match onwards
identify_multi_word_entity(match, unknown_text) ==
    IF match.kind = "title_journal"
    THEN LET cropped == crop_title(match.parts, unknown_text)
         IN  [title |-> cropped.title, journal |-> match.journal,
              publisher |-> <<>>, unknown |-> cropped.unknown]
    ELSE IF match.kind = "journal_only"
    THEN [title |-> <<>>, journal |-> match.journal, publisher |-> <<>>,
          unknown |-> concatenate(unknown_text, match.unplaced)]
    ELSE IF match.kind = "noun_phrases"
    THEN [title |-> <<>>, journal |-> match.journal, publisher |-> <<>>,
          unknown |-> concatenate(unknown_text, Flatten(match.parts))]
    ELSE [title |-> <<>>, journal |-> <<>>, publisher |-> <<>>,
          unknown |-> unknown_text]

\* the words of the reference string that identify_multi_word_entity did
\* not give to title, journal or publisher: they are not in `remove`, so
\* they stay in the string handed to identify_numeric_tokens
ResidueWords(match) ==
    IF match.kind = "title_journal" THEN Flatten(Tail(match.parts))
    ELSE IF match.kind = "journal_only" THEN match.unplaced
    ELSE IF match.kind = "noun_phrases" THEN Flatten(match.parts)
    ELSE <<>>

\* segment: `unknown` is the month name found at the start; the dictionary
\* is updated with identify_multi_word_entity(.., segment_dict['unknown'])
\* and then with identify_numeric_tokens(reference_str, unknown), whose
\* 'unknown' replaces the one in the dictionary
segment(a) ==
    LET entity == identify_multi_word_entity(a.match, a.month)
        numeric == identify_numeric_tokens(
                       [years |-> a.years, the_rest |-> a.the_rest,
                        extracted |-> a.extracted,
                        other_words |-> ResidueWords(a.match),
                        unknown |-> a.month])
        moved == a.editors # <<>> /\ numeric.unknown # <<"in">> /\ entity.title = <<>>
    IN  [title |-> IF moved THEN numeric.unknown ELSE entity.title,
         journal |-> entity.journal,
         editors |-> a.editors,
         volume |-> numeric.volume, page |-> numeric.page, issue |-> numeric.issue,
         unknown |-> IF moved THEN <<>> ELSE numeric.unknown]

call_segment ==
    /\ fn_args # <<>>
    /\ fn_ret = <<>>
    /\ fn_ret' = <<[fn |-> "segment", segment_dict |-> segment(fn_args[1])]>>
    /\ UNCHANGED <<ev_vars, cmp_vars, crf_vars, fn_args>>

InitSegment ==
    /\ EvInit /\ CmpIdle /\ CrfIdle
    /\ fn_ret = <<>>
    /\ \E month \in {<<>>, <<"March">>},
          match \in MultiWordMatches,
          editors \in {<<>>, <<"Smith">>},
          the_rest \in DistinctSeqs(MostlyDigitTokens, MaxRest),
          extracted \in ExtractorOutcomes :
         fn_args = <<[month |-> month, match |-> match, editors |-> editors,
                      years |-> <<>>, the_rest |-> the_rest,
                      extracted |-> extracted]>>

NextSegment == call_segment

SpecSegment == InitSegment /\ [][NextSegment]_vars

--------------------------------------------------------------------------
(* Claims about Evidences *)

\* the scores appended by a step
Appended == SubSeq(evidences', Len(evidences) + 1, Len(evidences'))

C1_InRange ==
    \A i \in 1..Len(evidences) :
        EVIDENCE_SCORE_MIN <= evidences[i] /\ evidences[i] <= EVIDENCE_SCORE_MAX

C1_Step ==
    /\ exc' = "AssertionError" => UNCHANGED <<evidences, labels, score>>
    /\ evidences' # evidences =>
          /\ exc' = "none"
          /\ Len(evidences') > Len(evidences)
          /\ SubSeq(evidences', 1, Len(evidences)) = evidences
          /\ \A e \in Scores \ (EVIDENCE_SCORE_MIN..EVIDENCE_SCORE_MAX) :
                \A l \in Labels : ~add_evidence(e, l)

\* C1: after any sequence of add_evidence calls and in-place combinations
\* every score held lies within the configured [min,max] range; a call that
\* would bring in a score outside the range raises and stores nothing (it
\* is neither stored as offered nor clamped into the range).
C1_ScoresStayInRange == []C1_InRange /\ [][C1_Step]_vars

\* C1 witness: a call was rejected on an Evidences that holds scores
C1_Witness ==
    /\ exc = "AssertionError"
    /\ Len(evidences) >= 2
    /\ \E i \in 1..Len(evidences) : evidences[i] = EVIDENCE_SCORE_MAX

C3_ScoreWithinRange ==
    min_score <= get_score_value /\ get_score_value <= max_score

\* C4: has_veto is false in the empty state and stays false until a score
\* <= 0 is inserted by add_evidence or by combination; from the step that
\* inserts one it is true, whatever is added later.
C4_VetoFromFirstNonPositive ==
    /\ ~has_veto
    /\ [][has_veto' = (has_veto \/ \E i \in 1..Len(Appended) : Appended[i] <= 0)]_vars

\* C4 witness: a veto was inserted and positive scores were added after it
C4_Witness ==
    /\ has_veto
    /\ Len(evidences) >= 3
    /\ evidences[1] <= 0
    /\ \A i \in 2..Len(evidences) : evidences[i] > 0

\* some pair added under the label carries the maximum score
AddedAtMax(term) ==
    \E i \in 1..Len(labels) :
        labels[i] = term /\ evidences[i] = EVIDENCE_SCORE_MAX

\* the pair added last under the label carries the maximum score
LastAddedAtMax(term) ==
    \E i \in 1..Len(labels) :
        /\ labels[i] = term
        /\ evidences[i] = EVIDENCE_SCORE_MAX
        /\ \A j \in (i+1)..Len(labels) : labels[j] # term

\* C5 as stated: count_votes is true iff for one of the two combinations
\* every label has been added with the maximum score.
C5_VotesIffAddedAtMax ==
    count_votes <=>
        \/ \A t \in {"authors", "pubstring", "volume", "year"} : AddedAtMax(t)
        \/ \A t \in {"authors", "year", "page"} : AddedAtMax(t)

\* C5 amended: count_votes is true iff for one of the two combinations the
\* score added last under every label of the combination is the maximum.
C5_VotesIffLastAddedAtMax ==
    count_votes <=>
        \/ \A t \in {"authors", "pubstring", "volume", "year"} : LastAddedAtMax(t)
        \/ \A t \in {"authors", "year", "page"} : LastAddedAtMax(t)

\* C5 witness: the vote passes although a label of the combination was
\* first added below the maximum
C5_Witness ==
    /\ count_votes
    /\ \E i, j \in 1..Len(labels) :
          /\ i < j
          /\ labels[i] = labels[j]
          /\ labels[i] \in {"authors", "year", "page"}
          /\ evidences[i] # EVIDENCE_SCORE_MAX

\* Python's a <op> b on numbers
PyCompare(op, a, b) ==
    CASE op = "lt" -> a < b
      [] op = "le" -> a <= b
      [] op = "gt" -> a > b
      [] op = "ge" -> a >= b
      [] OTHER -> a = b

\* C6: each of <, <=, >, >=, == against None or the number 0 is false
\* whatever the aggregate score is; against a non-zero number or another
\* Evidences it compares the aggregate scores.
C6_ComparisonTable ==
    cmp_op # "none" =>
        /\ cmp_other.kind = "None" => cmp_ret = FALSE
        /\ (cmp_other.kind = "number" /\ cmp_other.val = 0) => cmp_ret = FALSE
        /\ (cmp_other.kind = "number" /\ cmp_other.val # 0) =>
              cmp_ret = PyCompare(cmp_op, get_score_value, cmp_other.val)
        /\ cmp_other.kind = "Evidences" =>
              cmp_ret = PyCompare(cmp_op, get_score_value,
                                  SeqSum(cmp_other.evidences))

\* C6 witness: ">= 0" answered false on an Evidences whose score is positive
C6_Witness ==
    /\ cmp_op = "ge"
    /\ cmp_other = NumOperand(0)
    /\ get_score_value > 0
    /\ cmp_ret = FALSE

--------------------------------------------------------------------------
(* Claims about training and persistence *)

\* create_crf has returned a value
CreateCrfReturned == crf_ret \in {"True", "False"}

AllowedAttempts ==
    IF generate_fold THEN NUM_TRIES_GENERATED ELSE NUM_TRIES_STATIC

C8_Counts ==
    /\ pc = "loop" => attempts + num_tries = AllowedAttempts
    /\ attempts <= NUM_TRIES_GENERATED
    /\ (CreateCrfReturned /\ ~generate_fold) => attempts = 1
    /\ (CreateCrfReturned /\ generate_fold) =>
          (attempts >= 1 /\ attempts <= NUM_TRIES_GENERATED)

C8_Step ==
    /\ attempts' > attempts =>
          /\ crf_score <= RETRY_THRESHOLD
          /\ attempts' = attempts + 1
          /\ num_tries' = num_tries - 1
    /\ (pc = "loop" /\ crf_score > RETRY_THRESHOLD) =>
          (attempts' = attempts /\ pc' # "loop")

\* C8: the acceptance loop terminates; it makes exactly 1 attempt with the
\* static fold split and at most 10 with generated folds; an attempt that
\* raises consumes one attempt like any other; no attempt follows one that
\* scored above 0.90.
C8_LoopTerminates ==
    /\ []C8_Counts
    /\ [][C8_Step]_vars
    /\ (pc = "loop") ~> (pc # "loop")

\* C8 witness: all 10 attempts were used on generated folds, the last one
\* raising, and create_crf returned
C8_Witness ==
    /\ CreateCrfReturned
    /\ generate_fold
    /\ attempts = NUM_TRIES_GENERATED
    /\ last = "raised"

\* C9: no exception escapes create_crf, save or load; a failure gives a
\* false or absent return value.
C9_NoExceptionEscapes ==
    /\ ~escaped
    /\ crf_ret # "raised"

\* C10: create_text_model returns a classifier only if training and the
\* save after it both reported success; when training fails save is not
\* attempted and the result is absent; when save fails the result is
\* absent; no exception reaches the caller.
C10_TextModelOnlyAfterTrainAndSave ==
    caller = "create_text_model" =>
        /\ result = "crf" => (crf_ret = "True" /\ save_ret = "True")
        /\ crf_ret \in {"False", "raised"} => save_calls = 0
        /\ (pc = "idle" /\ crf_ret \in {"False", "raised"}) => result = "None"
        /\ save_ret = "False" => result = "None"
        /\ save_calls <= 1
        /\ pc = "idle" => result \in {"crf", "None"}
        /\ ~escaped

\* C10 witness: training failed after an attempt, create_text_model
\* returned None and save was never called
C10_Witness ==
    /\ caller = "create_text_model"
    /\ pc = "idle"
    /\ crf_ret = "False"
    /\ attempts >= 1
    /\ result = "None"
    /\ save_calls = 0
    /\ save_ret = "pending"

--------------------------------------------------------------------------
(* Claims about the parser's pure functions *)

\* position of the first occurrence of label l in the flattened corpus
FirstSeen(ls, l) == CHOOSE i \in 1..Len(ls) :
                        ls[i] = l /\ \A h \in 1..(i - 1) : ls[h] # l

\* C11: the label-code map built by encoder gives each distinct label of
\* the corpus exactly one code, distinct labels distinct codes, the codes
\* being 0..k-1 in the order the labels were first seen; decoder applied
\* to the coded references gives back the original labels.
C11_CodesAreFirstSeenOrder ==
    fn_ret # <<>> =>
        LET lc == fn_ret[1].label_code
            ls == Flatten(fn_args)
            D  == {ls[i] : i \in 1..Len(ls)}
            k  == Cardinality(D)
        IN  /\ Len(lc) = k
            /\ {lc[i][1] : i \in 1..Len(lc)} = D
            /\ {lc[i][2] : i \in 1..Len(lc)} = 0..(k - 1)
            /\ \A a, b \in D :
                  FirstSeen(ls, a) < FirstSeen(ls, b)
                      => DictItem(lc, a) < DictItem(lc, b)
            /\ fn_ret[1].stage = "decoded" => fn_ret[1].decoded = fn_args

C11_Witness ==
    /\ fn_ret # <<>>
    /\ fn_ret[1].stage = "decoded"
    /\ fn_args = << <<"YEAR", "AUTHOR_LAST_NAME">>, <<"YEAR", "PUNCTUATION_COMMA">> >>
    /\ fn_ret[1].label_code = << <<"YEAR", 0>>, <<"AUTHOR_LAST_NAME", 1>>,
                                 <<"PUNCTUATION_COMMA", 2>> >>
    /\ fn_ret[1].decoded = fn_args

--------------------------------------------------------------------------
(* Claims about resolver/authors.py *)

\* C13: add_author_evidence never fails the range assertion of
\* add_evidence; with an empty reference author string or an empty
\* catalogued author list it leaves the Evidences as they were, and
\* otherwise it appends exactly one evidence labelled "authors" whose score
\* lies within the configured range, whatever the counts, the first-author
\* factor and the et-al flag are.
C13_Step ==
    (fn_ret = <<>> /\ fn_ret' # <<>> /\ fn_ret'[1].fn = "add_author_evidence") =>
        /\ exc' # "AssertionError"
        /\ IF Len(fn_args.ref_authors) = 0 \/ Len(fn_args.ads_authors) = 0
           THEN UNCHANGED ev_vars
           ELSE /\ Len(evidences') = Len(evidences) + 1
                /\ SubSeq(evidences', 1, Len(evidences)) = evidences
                /\ SubSeq(labels', 1, Len(labels)) = labels
                /\ labels'[Len(labels')] = "authors"
                /\ min_score <= evidences'[Len(evidences')]
                /\ evidences'[Len(evidences')] <= max_score

C13_OneAuthorsEvidenceInRange == [][C13_Step]_vars

\* an evidence was added although the normalizer was zero, and another
\* case where the unclamped score lay outside the range
C13_Witness ==
    /\ fn_ret # <<>>
    /\ fn_ret[1].fn = "add_author_evidence"
    /\ fn_ret[1].added
    /\ labels[Len(labels)] = "authors"
    /\ \/ fn_ret[1].normalizer_zero
       \/ fn_ret[1].unclamped < min_score

\* C18: in count_matching_authors a reference surname credited as the
\* misspelling of one catalogued name is not credited again for a later
\* catalogued name: no position of ref_authors_lastname is credited twice.
C18_CreditedAtMostOnce ==
    (/\ fn_ret # <<>>
     /\ fn_ret[1].fn = "count_matching_authors"
     /\ fn_ret[1].raised = "none") =>
        \A i, j \in 1..Len(fn_ret[1].credited) :
            i # j => fn_ret[1].credited[i] # fn_ret[1].credited[j]

--------------------------------------------------------------------------
(* Claims about reference() *)

\* the labels a key of the parsed record answers to
LabelsOfKey(key) ==
    CASE key = "year" -> {"YEAR"} [] key = "volume" -> {"VOLUME"}
      [] key = "page" -> {"PAGE"} [] key = "issue" -> {"ISSUE"}
      [] key = "doi" -> {"DOI"} [] key = "arxiv" -> {"ARXIV"}
      [] key = "ascl" -> {"ASCL"} [] key = "ISSN" -> {"ISSN"}
      [] key = "journal" -> {"JOURNAL"} [] key = "title" -> {"TITLE", "BOOK_TITLE"}
      [] OTHER -> {}

\* C14: in the record built by reference(), every key other than refstr is
\* present only if some token carried the corresponding label; the authors
\* key is absent when the leading token carries no author label.
C14_KeysOnlyForLabelsFound ==
    fn_ret # <<>> =>
        \A e \in 1..Len(fn_ret[1]) :
            LET key == fn_ret[1][e][1]
            IN  \/ key = "refstr"
                \/ key = "authors" /\ fn_args[1][1] \in AUTHOR_TAGS
                \/ key # "authors" /\
                   \E i \in 1..Len(fn_args) : fn_args[i][1] \in LabelsOfKey(key)

--------------------------------------------------------------------------
(* Claims about extract_doi *)

\* C19: when the DOI is followed by a dot, whitespace and then an http://,
\* https://, arXiv: or ascl: marker, extract_doi returns the DOI text alone:
\* no doi: marker, no trailing dot or whitespace, nothing of what follows.
C19_DoiAlone ==
    (/\ fn_ret # <<>>
     /\ fn_args.ending = <<".", " ">>
     /\ \E mark \in {HTTP, HTTPS, ARXIV_MARK, ASCL_MARK} :
            StartsWith(fn_args.follower, mark)) =>
        fn_ret[1] = fn_args.doi

--------------------------------------------------------------------------
(* Claims about identify_numeric_tokens *)

\* C17: whenever identify_numeric_tokens reports a year, the year is purely
\* numeric and lies within [1400, current year], be it the only candidate,
\* one of several, or one in parentheses.
C17_YearNumericAndInRange ==
    fn_ret # <<>> =>
        \A i \in 1..Len(fn_ret[1].year.value) :
            LET y == fn_ret[1].year.value[i]
            IN  y.suffix = "" /\ y.num >= year_earliest /\ y.num <= year_now

\* the fields known when the guesses are made, and the list they are made from
Known == fn_args.extracted

Leftovers == fn_ret[1].rest

\* C20: the guesses made from 1 to 3 leftover numeric tokens follow the
\* table: 3 leftovers with volume, issue and page empty give (volume,
\* issue, page); 2 leftovers with volume empty and page set give volume =
\* first, issue = second; 2 leftovers with volume and page empty give
\* volume = first, page = second; 1 leftover goes to the first still-empty
\* field of volume, page, issue.  The leftovers are the tokens the guesses
\* are made from, the list starting at its first all-digit token when the
\* volume is not known.
C20_PositionalTable ==
    (fn_ret # <<>> /\ Len(Leftovers) \in 1..3) =>
        LET r == fn_ret[1]
        IN  /\ (Len(Leftovers) = 3 /\ Known.volume = "" /\ Known.issue = ""
                    /\ Known.page = "") =>
                (r.volume = Leftovers[1] /\ r.issue = Leftovers[2] /\ r.page = Leftovers[3])
            /\ (Len(Leftovers) = 2 /\ Known.volume = "" /\ Known.page # "") =>
                (r.volume = Leftovers[1] /\ r.issue = Leftovers[2] /\ r.page = Known.page)
            /\ (Len(Leftovers) = 2 /\ Known.volume = "" /\ Known.page = "") =>
                (r.volume = Leftovers[1] /\ r.page = Leftovers[2] /\ r.issue = Known.issue)
            /\ (Len(Leftovers) = 1 /\ Known.volume = "") =>
                (r.volume = Leftovers[1] /\ r.page = Known.page /\ r.issue = Known.issue)
            /\ (Len(Leftovers) = 1 /\ Known.volume # "" /\ Known.page = "") =>
                (r.page = Leftovers[1] /\ r.volume = Known.volume /\ r.issue = Known.issue)
            /\ (Len(Leftovers) = 1 /\ Known.volume # "" /\ Known.page # ""
                    /\ Known.issue = "") =>
                (r.issue = Leftovers[1] /\ r.volume = Known.volume /\ r.page = Known.page)

\* one leftover went to issue, volume and page being known
C20_Witness ==
    /\ fn_ret # <<>>
    /\ Len(fn_args.the_rest) = 1
    /\ fn_args.extracted.volume # "" /\ fn_args.extracted.page # ""
    /\ fn_ret[1].issue = fn_args.the_rest[1]

--------------------------------------------------------------------------
(* Claims about get_author_pattern and get_authors *)

\* the shapes whose count is the largest and the shapes with a count above 0
TiedShapes == {i \in 0..3 : \A j \in 0..3 :
                  At(fn_args[1].lengths, i) >= At(fn_args[1].lengths, j)}
ScoringShapes == {i \in 0..3 : At(fn_args[1].lengths, i) > 0}
PatternReturned == fn_ret # <<>> /\ fn_ret[1].fn = "get_author_pattern"
Tie == Cardinality(TiedShapes) > 1

\* the fixed table, on the set of tied shapes
TableChoice ==
    IF TiedShapes = {2, 3} THEN LEADING_FULL_PAT
    ELSE IF TiedShapes \in {{1, 3}, {1, 2, 3}} THEN LEADING_INIT_PAT
    ELSE IF TiedShapes \in {{0, 2}, {0, 2, 3}} THEN TRAILING_INIT_PAT
    ELSE IF TiedShapes = {0, 1, 3} THEN LEADING_FULL_PAT
    ELSE IF TiedShapes = {0, 1, 2} THEN TRAILING_FULL_PAT
    ELSE None

\* C15 as stated: every tie among the largest counts is resolved by the
\* table on the set of tied shapes (the two full-name shapes tied always give
\* leading-full-name, and so on).
C15_EveryTieByTable ==
    (PatternReturned /\ Tie) => fn_ret[1].pattern = TableChoice

\* C15, amended: a tie is resolved by the table on the set of tied shapes
\* unless exactly one more shape has a count above 0 than there are tied
\* shapes; then the lowest-numbered shape with a count above 0 is returned.
C15_TieByTableUnlessOneMore ==
    (PatternReturned /\ Tie) =>
        IF Cardinality(ScoringShapes) - Cardinality(TiedShapes) = 1
        THEN fn_ret[1].pattern =
                 At(author_patterns,
                    CHOOSE i \in ScoringShapes : \A j \in ScoringShapes : i <= j)
        ELSE fn_ret[1].pattern = TableChoice

\* the two full-name shapes tied, no other shape scoring: leading-full-name
C15_Witness ==
    /\ PatternReturned
    /\ TiedShapes = {2, 3}
    /\ ScoringShapes = {2, 3}
    /\ fn_ret[1].pattern = LEADING_FULL_PAT

\* C16: get_authors returns an author span or raises Undecidable and nothing
\* else; with no "and N colleagues" phrase, no collaboration after position
\* 0 and an "et al." span matched from the start, it returns that span.
C16_SpanOrUndecidable ==
    (fn_ret # <<>> /\ fn_ret[1].fn = "get_authors") =>
        /\ fn_ret[1].result.outcome \in {"authors", "Undecidable"}
        /\ (/\ fn_args[1].and_colleagues[2] = 0
            /\ fn_args[1].collaborators[1] = 0
            /\ fn_args[1].etal_len > 0)
           => fn_ret[1].result = Returned(fn_args[1].etal_len)

\* C21: with more than three leftover numeric tokens, or with two while
\* volume and page are both known, identify_numeric_tokens guesses no field
\* and every leftover token is in the unknown text it returns.
C21_UnguessedLeftoversGoToUnknown ==
    (/\ fn_ret # <<>>
     /\ \/ Len(Leftovers) > 3
        \/ (Len(Leftovers) = 2 /\ Known.volume # "" /\ Known.page # "")) =>
        LET r == fn_ret[1]
        IN  /\ r.volume = Known.volume /\ r.page = Known.page /\ r.issue = Known.issue
            /\ \A i \in 1..Len(Leftovers) :
                   \E j \in 1..Len(r.unknown) : r.unknown[j] = Leftovers[i]

\* the positions (from 0) of the tokens of the tagged reference whose label
\* is in S, and the position the features were computed for
PositionsLabelled(S) ==
    {i \in 0..(Len(fn_args.reference_list) - 1) : At(fn_args.reference_list, i)[1] \in S}
LastOf(positions) == CHOOSE i \in positions : \A j \in positions : j <= i
FirstOf(positions) == CHOOSE i \in positions : \A j \in positions : i <= j

\* the last-of-field indicator at place k of the vector agrees with the
\* labels in S: 1 exactly on the last token of the field unless that token
\* is the first one too, and 0 on every token after the field
LastIndicatorRight(k, S) ==
    LET positions == PositionsLabelled(S)
        index == fn_ret[1].index
    IN  (positions # {} /\ index # FirstOf(positions)) =>
            (fn_ret[1].features[k] = 1 <=> index = LastOf(positions))

\* C22: in training mode the last-of-field indicator for title is 1 exactly
\* for the last token labelled TITLE or BOOK_TITLE and the one for journal
\* exactly for the last token labelled JOURNAL, whenever that token is not
\* also the first of the field; it is never set on a token after the field.
C22_LastOfFieldIsLastLabelled ==
    (fn_ret # <<>> /\ fn_args.mode = "training" /\ fn_ret[1].raised = "none") =>
        /\ LastIndicatorRight(42, {"TITLE", "BOOK_TITLE"})
        /\ LastIndicatorRight(46, {"JOURNAL"})

\* C23: get_author_pattern counts the four shapes on the string with a
\* leading collaboration span removed: a collaboration span found at
\* position 0 makes the counting start right after it, and without a
\* collaboration span at the start the counting starts at position 0.
C23_CountsAfterLeadingCollaboration ==
    PatternReturned =>
        LET collaborators_idx == fn_args[1].collaborators[1]
            collaborators_len == fn_args[1].collaborators[2]
        IN  IF collaborators_len > 0 /\ collaborators_idx = 0
            THEN fn_ret[1].start = collaborators_len
            ELSE fn_ret[1].start = 0

\* the count of the shape get_author_pattern returned
ReturnedShape == CHOOSE i \in 0..3 : At(author_patterns, i) = fn_ret[1].pattern
CountOf(i) == At(fn_args[1].lengths, i)

\* C24 as stated: a returned shape has a count that no other shape exceeds
\* and that is above 0; with all four counts 0 there is no decision.
C24_ReturnedShapeIsMaximal ==
    PatternReturned =>
        /\ fn_ret[1].pattern # None =>
              /\ CountOf(ReturnedShape) > 0
              /\ \A j \in 0..3 : CountOf(j) <= CountOf(ReturnedShape)
        /\ (\A j \in 0..3 : CountOf(j) = 0) => fn_ret[1].pattern = None

\* C24, amended: a returned shape has a count above 0, and no other shape
\* exceeds it unless several shapes tie for the largest count and exactly
\* one more shape has a count above 0: then the lowest-numbered shape with a
\* count above 0 is returned, whatever its count.  With all four counts 0
\* there is no decision.
C24_ReturnedShapeScoresAndIsMaximalUnlessOneMore ==
    PatternReturned =>
        /\ fn_ret[1].pattern # None =>
              /\ CountOf(ReturnedShape) > 0
              /\ \/ \A j \in 0..3 : CountOf(j) <= CountOf(ReturnedShape)
                 \/ /\ Tie
                    /\ Cardinality(ScoringShapes) - Cardinality(TiedShapes) = 1
                    /\ \A j \in ScoringShapes : ReturnedShape <= j
        /\ (\A j \in 0..3 : CountOf(j) = 0) => fn_ret[1].pattern = None

\* one shape alone has the largest count and is returned
C24_Witness ==
    /\ PatternReturned
    /\ TiedShapes = {1}
    /\ Cardinality(ScoringShapes) = 3
    /\ fn_ret[1].pattern = LEADING_INIT_PAT

--------------------------------------------------------------------------
(* Claims about one insertion into an Evidences object *)

Inserted == fn_ret # <<>> /\ fn_args # <<>> /\ fn_args[1].call \in {"add_evidence", "add"}

\* a rejected call left the evidence list, the label list and the cached
\* score as they were
RejectedLeavesSelf ==
    exc = "AssertionError" =>
        /\ evidences = fn_args[1].before.evidences
        /\ labels = fn_args[1].before.labels
        /\ score = fn_args[1].before.score

\* C25 as stated: a rejected add_evidence or in-place combination leaves the
\* evidence list, the label list and the cached score as before the call,
\* and a successful combination leaves the right-hand operand unchanged.
C25_FailedInsertionChangesNothing ==
    Inserted =>
        /\ RejectedLeavesSelf
        /\ (fn_args[1].call = "add" /\ exc = "none") =>
               fn_ret[1].other = fn_args[1].other

\* C25, amended: a rejected add_evidence or in-place combination leaves the
\* evidence list, the label list and the cached score as before the call;
\* a successful combination leaves the right-hand operand unchanged when it
\* is another object, and when the operand is the object itself its lists
\* are the doubled lists of the result.
C25_FailedInsertionChangesNothingOtherObject ==
    Inserted =>
        /\ RejectedLeavesSelf
        /\ (fn_args[1].call = "add" /\ exc = "none") =>
               IF fn_args[1].other_is_self
               THEN /\ fn_ret[1].other.evidences =
                          fn_args[1].other.evidences \o fn_args[1].other.evidences
                    /\ fn_ret[1].other.labels =
                          fn_args[1].other.labels \o fn_args[1].other.labels
               ELSE fn_ret[1].other = fn_args[1].other

\* a combination rejected on an object that holds evidences and a cached score
C25_Witness ==
    /\ Inserted
    /\ fn_args[1].call = "add"
    /\ exc = "AssertionError"
    /\ Len(evidences) = CmpLen
    /\ score # None

--------------------------------------------------------------------------
(* Claims about labels added more than once *)

\* the places where a label was added, and the last of them
PlacesOf(l) == {i \in 1..Len(labels) : labels[i] = l}
LastPlaceOf(l) == CHOOSE i \in PlacesOf(l) : \A j \in PlacesOf(l) : j <= i
NonPositivePlaces == {i \in 1..Len(evidences) : evidences[i] <= 0}

\* C26: with a label added more than once, lookup by label and count_votes
\* use the score added last under the label, while get_score, has_veto,
\* single_veto_from and the length account for every score added.
C26_LastWinsForLookupAllCountElsewhere ==
    /\ \A l \in Labels :
          getitem(l) = IF PlacesOf(l) = {} THEN None
                       ELSE <<evidences[LastPlaceOf(l)]>>
    /\ count_votes <=>
          \E c \in 1..Len(combinations) :
              \A k \in 1..Len(combinations[c]) :
                  /\ PlacesOf(combinations[c][k]) # {}
                  /\ evidences[LastPlaceOf(combinations[c][k])] = EVIDENCE_SCORE_MAX
    /\ get_score_value = SeqSum(evidences)
    /\ has_veto <=> NonPositivePlaces # {}
    /\ \A l \in Labels :
          single_veto_from(l) <=>
              (Cardinality(NonPositivePlaces) = 1 /\ NonPositivePlaces \subseteq PlacesOf(l))
    /\ len = Len(labels)

\* a label added twice, first with a veto and last with the maximum: the
\* lookup gives the maximum, the veto and the sum still count the first
C26_Witness ==
    /\ Len(labels) >= 3
    /\ Cardinality(PlacesOf("year")) = 2
    /\ \E i \in PlacesOf("year") : evidences[i] <= 0
    /\ getitem("year") = <<EVIDENCE_SCORE_MAX>>
    /\ single_veto_from("year")
    /\ get_score_value < len

--------------------------------------------------------------------------
(* More claims about identify_numeric_tokens *)

\* C27: the guesses from the leftover tokens never change a volume, page
\* or issue that the pattern extractors had found: a leftover is only
\* assigned to a field that was empty.
C27_KnownFieldsKept ==
    fn_ret # <<>> =>
        /\ Known.volume # "" => fn_ret[1].volume = Known.volume
        /\ Known.page # "" => fn_ret[1].page = Known.page
        /\ Known.issue # "" => fn_ret[1].issue = Known.issue

\* two leftovers went to issue and page beside a volume known before
C27_Witness ==
    /\ fn_ret # <<>>
    /\ Len(Leftovers) = 2
    /\ Known.volume # "" /\ Known.page = ""
    /\ fn_ret[1].volume = Known.volume
    /\ fn_ret[1].issue = Leftovers[1]
    /\ fn_ret[1].page = Leftovers[2]

--------------------------------------------------------------------------
(* Claims about segment of the free-text classifier *)

\* the text identify_multi_word_entity put into unknown: the cropped
\* subtitle, or the part of a journal-only match it could not place
PutIntoUnknown ==
    LET match == fn_args[1].match
    IN  IF match.kind = "title_journal" THEN Flatten(Tail(match.parts))
        ELSE IF match.kind = "journal_only" THEN match.unplaced
        ELSE <<>>

\* C28: the text that multi-word entity identification put into the
\* unknown bucket is still contained in the unknown field of the dictionary
\* segment() returns.
C28_UnknownFromEntitiesKept ==
    (fn_ret # <<>> /\ fn_ret[1].fn = "segment") =>
        IsSubstring(PutIntoUnknown, fn_ret[1].segment_dict.unknown)

--------------------------------------------------------------------------
(* More claims about count_matching_authors *)

CountsReturned ==
    fn_ret # <<>> /\ fn_ret[1].fn = "count_matching_authors" /\ fn_ret[1].raised = "none"

\* the catalogued names found in the reference author string
FoundInReference ==
    {k \in 1..Len(fn_args.ads_authors) : InWords(fn_args.ads_authors[k], fn_args.ref_authors)}

\* C29: count_matching_authors counts each catalogued author exactly once,
\* as matching, as misspelled or as missing in the reference:
\* matching_authors + missing_in_ref + the number credited as misspelled is
\* the number of catalogued authors, and a misspelled name raises neither
\* matching_authors nor missing_in_ref.
C29_EachCataloguedAuthorCountedOnce ==
    CountsReturned =>
        /\ fn_ret[1].matching_authors + fn_ret[1].missing_in_ref
               + Len(fn_ret[1].different) = Len(fn_args.ads_authors)
        /\ fn_ret[1].matching_authors + fn_ret[1].missing_in_ref
               <= Len(fn_args.ads_authors)
        /\ fn_ret[1].matching_authors = Cardinality(FoundInReference)
        /\ fn_ret[1].missing_in_ref =
               Cardinality({k \in 1..Len(fn_args.ads_authors) :
                   /\ k \notin FoundInReference
                   /\ \A h \in 1..Len(get_author_last_name_only(fn_args.ref_authors)) :
                         ~Misspelled(fn_args.ads_authors[k],
                                     get_author_last_name_only(fn_args.ref_authors)[h])})

\* one catalogued name matched, the other credited as a misspelling
C29_Witness ==
    /\ CountsReturned
    /\ Len(fn_args.ads_authors) = 2
    /\ fn_ret[1].matching_authors = 1
    /\ Len(fn_ret[1].different) = 1
    /\ fn_ret[1].missing_in_ref = 0


(***************************************************************************)
(* Claims about CRFClassifier.load                                         *)
(***************************************************************************)

\* the model bundle the classifier holds
Bundle == <<crf, label_code, nltk_tagger>>

\* a step that is one call of load
LoadStep == \E fail_at \in FailPoints : call_load(fail_at)

\* C30: a failed load (it returns None) leaves crf, label_code and
\* nltk_tagger as they were, so the bundle is never a mix of old and newly
\* read parts; after a successful load the three are the three parts of
\* the stream, in the order in which save wrote them.
C30_FailedLoadKeepsBundle ==
    [][LoadStep =>
          /\ load_ret' = "None" => Bundle' = Bundle
          /\ load_ret' = "crf" => Bundle' = file[1]]_vars

====
